---- MODULE Spec2Model ----
(***************************************************************************)
(* A model of the message injector of aox (src/message/injector.cpp): the  *)
(* Injector state machine, its subordinate fetchers and vocabulary         *)
(* resolvers, the transaction each injection runs in, and the database     *)
(* the transactions act on.                                                *)
(*                                                                         *)
(* Every handler of the code (an execute() callback) is an operator from   *)
(* a context record to a context record; the context holds what the        *)
(* handler can reach: the InjectorData of its injection, the client side   *)
(* of its Transaction, the results of its queries and the process-wide     *)
(* objects (caches, Mailbox objects, sessions, the peer channel).          *)
(***************************************************************************)
EXTENDS Integers, Sequences, FiniteSets, TLC

\* ------------------------------------------------------------------ bounds

\* Number of injections that run concurrently.
NInj == 2
\* Number of mailboxes in the database.
NMbx == 2
\* Number of queries the database may fail for a reason of its own.
MaxFaults == 1
\* Number of queries that are submitted to the pool of handles.
MaxQueries == 3
\* db-max-handles: the largest number of handles the pool creates.
DbMaxHandles == 2
\* Number of addresses one select of the AddressCreator asks for (1,024 in
\* the code).
MaxSelect == 2

\* The UIDs from which UidFetcher::process() logs an error and a disaster,
\* and the last UID there is: 0x7fff0000, 0x7ffffff0 and 0x7fffffff.
UidError == 2147418112
UidDisaster == 2147483632
UidLast == 2147483647

Inj == 1..NInj
Mbx == 1..NMbx

\* ------------------------------------------------------------- vocabulary

Kinds == {"flag", "annotation", "field", "address"}
CacheKinds == {"flag", "annotation", "field"}

\* String::lower(), on the strings the model uses.
Lower(s) ==
    CASE s = "New" -> "new"
      [] s = "EX.ORG" -> "ex.org"
      [] OTHER -> s

\* The canonical form of an address: name, localpart, lower-cased domain.
addressKey(a) == <<a.name, a.localpart, Lower(a.domain)>>

\* The key under which a resolver of kind k files the item x in its unided
\* dictionary, which is also the key of the table's unique constraint.
KeyOf(k, x) ==
    CASE k = "flag" -> Lower(x)
      [] k = "address" -> addressKey(x)
      [] OTHER -> x

\* The unique constraint a COPY into the table of kind k can violate.
ConstraintOf(k) ==
    CASE k = "flag" -> "fn_uname"
      [] k = "annotation" -> "annotation_names_name_key"
      [] k = "field" -> "field_names_name_key"
      [] k = "address" -> "addresses_nld_key"
      [] OTHER -> "bodyparts_hash_key"

\* The letter of the savepoints each component creates.
SavepointLetter(k) ==
    CASE k = "bodypart" -> "a"
      [] k = "address" -> "b"
      [] k = "flag" -> "c"
      [] k = "annotation" -> "d"
      [] OTHER -> "e"

\* The Injector states, in the order of the enum.
States ==
    << "Inactive", "CreatingFlags", "CreatingAnnotationNames", "CreatingFields",
       "InsertingBodyparts", "InsertingAddresses", "SelectingUids",
       "InsertingMessages", "LinkingAddresses", "LinkingFlags",
       "LinkingAnnotations", "AwaitingCompletion", "Done" >>

Rank(s) == CHOOSE n \in 1..Len(States) : States[n] = s

\* ---------------------------------------------------------------- helpers

Max(a, b) == IF a >= b THEN a ELSE b

Range(s) == {s[n] : n \in 1..Len(s)}

RECURSIVE SetToSeq(_)
SetToSeq(S) ==
    IF S = {} THEN << >>
    ELSE LET x == CHOOSE y \in S : TRUE IN << x >> \o SetToSeq(S \ {x})

VARIABLES
    d,        \* [Inj -> InjectorData and the objects the injection owns]
    tr,       \* [Inj -> the client side of the injection's Transaction]
    qr,       \* [Inj -> [query id -> what the process knows of the query]]
    resp,     \* [Inj -> responses of the database not yet read by the process]
    cache,    \* the process-wide flag, annotation-name and field-name caches
    mailbox,  \* the process's Mailbox objects: uidnext, nextmodseq
    session,  \* the sessions of the process
    occ,      \* the lines sent to the peer processes
    db,       \* the database
    queries,  \* Database::queries: the shared queue of submitted queries
    qstate,   \* [query -> Query::state()] of the queries given to submit()
    handles,  \* ::handles: the pool of database handles
    stats,    \* the values last given to the two GraphableNumbers
    conf,     \* the configured server address: a Unix socket, inside the root
    justCreated, \* ::lastCreated: less than db-handle-interval has passed
              \* since a handle was last created
    notices,  \* the calls of Query::notify() with the query's error, and
              \* (as query 0) the disasters logged by the pool
    faults,   \* the number of queries the database failed of its own
    und       \* the process of aox undelete: its UndeleteData and Transaction

poolVars == << queries, qstate, handles, stats, conf, justCreated, notices >>

\* The transaction of aox undelete, after those of the injections.
Und == NInj + 1

vars == << d, tr, qr, resp, cache, mailbox, session, occ, db, faults, poolVars, und >>

\* --------------------------------------------------------------- database
\*
\* db.mb     the rows of mailboxes: uidnext, nextmodseq, first_recent
\* db.lock   the transaction holding the row lock of each mailbox row, or 0
\* db.vocab  addresses, flag_names, annotation_names, field_names and
\*           bodyparts: rows [key, val, id, by, c], unique in key; by is the
\*           injection whose transaction inserted the row, c is TRUE once
\*           that transaction has committed
\* db.rows   the rows of every other table: [t, by, c, msg, m, uid, ms, ref]
\* db.seq    the sequences of the tables with serial ids
\* db.tx     the server side of each transaction: st, the savepoints, the
\*           mailbox rows as they were before the transaction changed them,
\*           and currval('messages_id_seq') of its session, its currval of
\*           the sequence of deliveries.id, the next value of its temporary
\*           sequence s, and the rows it has deleted

Tables == Kinds \cup {"bodypart"}

Visible(r, i) == r.c \/ r.by = i

\* The rows of deleted_messages for the mailbox m and the UIDs uids that
\* transaction i sees.
DeletedRows(dbx, i, m, uids) ==
    {r \in dbx.rows : /\ r.t = "deleted_messages" /\ r.m = m /\ r.uid \in uids
                      /\ Visible(r, i) /\ r \notin dbx.tx[i].gone}

\* The orders in which a statement may come upon the rows S.
Orders(S) ==
    {f \in [1..Cardinality(S) -> S] : \A a, b \in 1..Cardinality(S) : a # b => f[a] # f[b]}

NoResult == [wait |-> TRUE, failed |-> FALSE, err |-> "", rows |-> {}]

Ok(rows, ndb) ==
    [wait |-> FALSE, failed |-> FALSE, err |-> "", rows |-> rows, db |-> ndb]

\* A statement that fails leaves nothing behind and aborts its transaction.
Err(e, ndb, i) ==
    [wait |-> FALSE, failed |-> TRUE, err |-> e, rows |-> {},
     db |-> [ndb EXCEPT !.tx[i].st = "aborted"]]

Wait(ndb) == [NoResult EXCEPT !.wait = TRUE] @@ [db |-> ndb]

\* The rows a COPY or INSERT of the values vals adds to the table of kind k,
\* with ids drawn from the table's sequence.
RECURSIVE NewRows(_, _, _, _)
NewRows(k, vals, i, last) ==
    IF vals = << >> THEN {}
    ELSE {[key |-> IF k = "bodypart" THEN Head(vals).hash ELSE KeyOf(k, Head(vals)),
           val |-> Head(vals), id |-> last + 1, by |-> i, c |-> FALSE]}
         \cup NewRows(k, Tail(vals), i, last + 1)

\* insert into / copy into one of the tables with a unique key. The statement
\* waits while another transaction holds an uncommitted row with one of its
\* keys, fails with the constraint's name if a row with one of its keys is
\* visible, and otherwise inserts every value.
DbInsertUnique(dbx, i, k, vals) ==
    LET vs   == SetToSeq(vals)
        new  == NewRows(k, vs, i, dbx.seq[k])
        keys == {r.key : r \in new}
        old  == {r \in dbx.vocab[k] : r.key \in keys}
    IN  IF \E r \in old : ~Visible(r, i) THEN Wait(dbx)
        ELSE IF old # {} \/ Cardinality(keys) # Cardinality(vals)
        THEN Err(ConstraintOf(k), dbx, i)
        ELSE Ok({}, [dbx EXCEPT !.vocab[k] = @ \cup new,
                                !.seq[k] = @ + Cardinality(vals)])

\* select ... from one of those tables where key in keys, at READ COMMITTED.
DbSelect(dbx, i, k, keys) ==
    Ok({[key |-> r.key, val |-> r.val, id |-> r.id] :
            r \in {x \in dbx.vocab[k] : x.key \in keys /\ Visible(x, i)}}, dbx)

\* The table mailboxes has a row for mailbox m: a mailbox without a row is
\* kept in mb with the uidnext 0, which no row has.
HasRow(dbx, m) == dbx.mb[m].uidnext # 0

\* select uidnext,nextmodseq,first_recent from mailboxes where id=m for update
DbLock(dbx, i, m) ==
    IF ~HasRow(dbx, m) THEN Ok({}, dbx)
    ELSE IF dbx.lock[m] \notin {0, i} THEN Wait(dbx)
    ELSE Ok({dbx.mb[m]}, [dbx EXCEPT !.lock[m] = i])

\* update mailboxes set ... where id=m, which takes the row lock as well.
DbUpdateMailbox(dbx, i, m, row) ==
    IF ~HasRow(dbx, m) THEN Ok({}, dbx)
    ELSE IF dbx.lock[m] \notin {0, i} THEN Wait(dbx)
    ELSE Ok({}, [dbx EXCEPT
            !.lock[m] = i,
            !.tx[i].undo = IF \E u \in @ : u[1] = m THEN @
                           ELSE @ \cup {<< m, dbx.mb[m] >>},
            !.mb[m] = row])

\* The table that a column of table t refers to, if one does.
\* insert or copy into a table without a serial id; mailbox_messages is
\* unique in (mailbox, uid), and its mailbox is one of mailboxes.
DbInsertRows(dbx, i, rows) ==
    LET new == {[t |-> r.t, by |-> i, c |-> FALSE, msg |-> r.msg, m |-> r.m,
                 uid |-> r.uid, ms |-> r.ms, ref |-> r.ref] : r \in rows}
        Clash(r, x) == /\ r.t = "mailbox_messages" /\ x.t = r.t
                       /\ x.m = r.m /\ x.uid = r.uid
    IN  IF \E r \in new : \E x \in dbx.rows : Clash(r, x) /\ ~Visible(x, i)
        THEN Wait(dbx)
        ELSE IF \/ \E r \in new : \E x \in dbx.rows : Clash(r, x)
                \/ \E r, x \in new : r # x /\ Clash(r, x)
        THEN Err("mailbox_messages_pkey", dbx, i)
        ELSE IF \E r \in new : r.t = "mailbox_messages" /\ ~HasRow(dbx, r.m)
        THEN Err("mailbox_messages_mailbox_fkey", dbx, i)
        ELSE Ok({}, [dbx EXCEPT !.rows = @ \cup new])

\* insert into messages (id,rfc822size) values (default,$1)
DbInsertMessage(dbx, i) ==
    LET id == dbx.seq["messages"] + 1
    IN  Ok({}, [dbx EXCEPT
            !.seq["messages"] = id,
            !.tx[i].currval = id,
            !.rows = @ \cup {[t |-> "messages", by |-> i, c |-> FALSE, msg |-> id,
                              m |-> 0, uid |-> 0, ms |-> 0, ref |-> 0]}])

\* insert into deliveries (sender,message,injected_at,expires_at) values
\* ($1,$2,...): the row's id, from the sequence, is in the column uid here.
DbInsertDelivery(dbx, i, a) ==
    LET id == dbx.seq["deliveries"] + 1
    IN  Ok({}, [dbx EXCEPT
            !.seq["deliveries"] = id,
            !.tx[i].delivery = id,
            !.rows = @ \cup {[t |-> "deliveries", by |-> i, c |-> FALSE, msg |-> a.msg,
                              m |-> 0, uid |-> id, ms |-> 0, ref |-> a.sender]}])

\* insert into delivery_recipients (delivery,recipient) values
\* (currval(pg_get_serial_sequence('deliveries','id')),$1): the delivery is
\* in the column uid here, and ms tells the rows of one delivery apart.
DbInsertRecipient(dbx, i, a) ==
    IF dbx.tx[i].delivery = 0 THEN Err("currval is not yet defined", dbx, i)
    ELSE Ok({}, [dbx EXCEPT
            !.rows = @ \cup {[t |-> "delivery_recipients", by |-> i, c |-> FALSE,
                              msg |-> 0, m |-> 0, uid |-> dbx.tx[i].delivery,
                              ms |-> a.n, ref |-> a.recipient]}])

\* insert into mailbox_messages (mailbox,uid,message,modseq) select
\* $1,nextval('s'),message,$2 from deleted_messages where mailbox=$1 and
\* uid=any($3): a.order is the order in which the rows are come upon.
DbUndeleteInsert(dbx, i, a) ==
    LET n   == Len(a.order)
        new == {[t |-> "mailbox_messages", msg |-> a.order[x].msg, m |-> a.m,
                 uid |-> dbx.tx[i].s + x - 1, ms |-> a.modseq, ref |-> 0] :
                    x \in 1..n}
        e   == DbInsertRows(dbx, i, new)
    IN  IF e.wait \/ e.failed THEN e
        ELSE [e EXCEPT !.db.tx[i].s = @ + n]

\* delete from deleted_messages where mailbox=$1 and uid=any($2), with the
\* UIDs bound as value 5: what the statement gets for $2 is the second of
\* the values bound ("inorder"), or the values sent do not fit the statement
\* and it fails ("error").
DbUndeleteDelete(dbx, i, a) ==
    IF a.gap = "error" THEN Err("there is no parameter $2", dbx, i)
    ELSE Ok({}, [dbx EXCEPT
                    !.tx[i].gone = @ \cup DeletedRows(dbx, i, a.m, a.uids)])

\* update mailboxes set uidnext=nextval('s'), nextmodseq=$1 where id=$2
DbUndeleteUpdate(dbx, i, a) ==
    LET e == DbUpdateMailbox(dbx, i, a.m,
                 [uidnext |-> dbx.tx[i].s, nextmodseq |-> a.nextmodseq,
                  first_recent |-> dbx.mb[a.m].first_recent])
    IN  IF e.wait \/ e.failed THEN e
        ELSE [e EXCEPT !.db.tx[i].s = @ + 1]

\* select currval('messages_id_seq')::int as id
DbCurrval(dbx, i) ==
    IF dbx.tx[i].currval = 0 THEN Err("currval is not yet defined", dbx, i)
    ELSE Ok({[id |-> dbx.tx[i].currval]}, dbx)

\* The end of a transaction: its rows become visible to all, or vanish, and
\* its row locks are released.
DbCommit(dbx, i) ==
    [dbx EXCEPT
        !.vocab = [k \in Tables |->
            {IF r.by = i THEN [r EXCEPT !.c = TRUE] ELSE r : r \in dbx.vocab[k]}],
        !.rows = {IF r.by = i THEN [r EXCEPT !.c = TRUE] ELSE r :
                     r \in @ \ dbx.tx[i].gone},
        !.lock = [m \in Mbx |-> IF dbx.lock[m] = i THEN 0 ELSE dbx.lock[m]],
        !.tx[i] = [@ EXCEPT !.st = "committed", !.undo = {}, !.sp = {}, !.gone = {}]]

DbRollback(dbx, i) ==
    [dbx EXCEPT
        !.vocab = [k \in Tables |-> {r \in dbx.vocab[k] : r.c \/ r.by # i}],
        !.rows = {r \in @ : r.c \/ r.by # i},
        !.mb = [m \in Mbx |->
            IF \E u \in dbx.tx[i].undo : u[1] = m
            THEN (CHOOSE u \in dbx.tx[i].undo : u[1] = m)[2]
            ELSE dbx.mb[m]],
        !.lock = [m \in Mbx |-> IF dbx.lock[m] = i THEN 0 ELSE dbx.lock[m]],
        !.tx[i] = [@ EXCEPT !.st = "rolledback", !.undo = {}, !.sp = {}, !.gone = {}]]

\* What the database does with the query qy of transaction i: wait, or answer
\* (failed, err, rows) and move to the state db.
DbEffect(dbx0, i, qy) ==
    LET st  == dbx0.tx[i].st
        dbx == IF st = "none" THEN [dbx0 EXCEPT !.tx[i].st = "active"] ELSE dbx0
    IN  IF st \in {"committed", "rolledback"}
        THEN [wait |-> FALSE, failed |-> TRUE, err |-> "no transaction",
              rows |-> {}, db |-> dbx0]
        ELSE IF qy.k = "commit"
        THEN IF st = "aborted" THEN Ok({}, DbRollback(dbx, i))
             ELSE Ok({}, DbCommit(dbx, i))
        ELSE IF qy.k = "rollback" THEN Ok({}, DbRollback(dbx, i))
        ELSE IF qy.k = "rollback_to"
        THEN IF qy.a \in dbx.tx[i].sp
             THEN Ok({}, [dbx EXCEPT !.tx[i].st = "active"])
             ELSE Err("no such savepoint", dbx, i)
        ELSE IF st = "aborted"
        THEN Err("current transaction is aborted", dbx, i)
        ELSE CASE qy.k = "savepoint" ->
                    Ok({}, [dbx EXCEPT !.tx[i].sp = @ \cup {qy.a}])
               [] qy.k = "select" -> DbSelect(dbx, i, qy.a.k, qy.a.keys)
               [] qy.k = "copy" -> DbInsertUnique(dbx, i, qy.a.k, qy.a.vals)
               [] qy.k = "insert_message" -> DbInsertMessage(dbx, i)
               [] qy.k = "select_currval" -> DbCurrval(dbx, i)
               [] qy.k = "insert_delivery" -> DbInsertDelivery(dbx, i, qy.a)
               [] qy.k = "find_deleted" ->
                    Ok({[uid |-> r.uid] : r \in DeletedRows(dbx, i, qy.a.m, qy.a.uids)},
                       dbx)
               [] qy.k = "create_sequence" -> Ok({}, [dbx EXCEPT !.tx[i].s = qy.a])
               [] qy.k = "undelete_insert" -> DbUndeleteInsert(dbx, i, qy.a)
               [] qy.k = "undelete_delete" -> DbUndeleteDelete(dbx, i, qy.a)
               [] qy.k = "undelete_update" -> DbUndeleteUpdate(dbx, i, qy.a)
               [] qy.k = "drop_sequence" -> Ok({}, [dbx EXCEPT !.tx[i].s = 0])
               [] qy.k = "refresh" -> Ok({}, dbx)
               [] qy.k = "insert_recipient" -> DbInsertRecipient(dbx, i, qy.a)
               [] qy.k = "lock" -> DbLock(dbx, i, qy.a)
               [] qy.k = "update_mailbox" ->
                    IF dbx.mb[qy.a.m].uidnext = UidLast
                    THEN Err("integer out of range", dbx, i)
                    ELSE DbUpdateMailbox(dbx, i, qy.a.m,
                        [uidnext |-> dbx.mb[qy.a.m].uidnext + 1,
                         nextmodseq |-> dbx.mb[qy.a.m].nextmodseq + 1,
                         first_recent |-> dbx.mb[qy.a.m].first_recent
                                          + (IF qy.a.recent THEN 1 ELSE 0)])
               [] OTHER -> DbInsertRows(dbx, i, qy.a)

\* ------------------------------------------------- queries and transaction
\*
\* A context c is what a handler running for one injection can reach:
\*   c.d  its InjectorData (with its fetchers and resolvers)
\*   c.t  its Transaction: the queries enqueued and not yet answered (the
\*        first nsent of them are with the database), failed, done, err, and
\*        log, all that was ever enqueued, in order
\*   c.q  its queries: done, failed, err, rows
\*   c.cache, c.mailbox, c.session, c.occ  the process-wide objects

PendingQuery == [done |-> FALSE, failed |-> FALSE, err |-> "", rows |-> {}]

\* new Query( ... ): the id of the next query of this injection.
NextId(c) == c.t.nq + 1

NewQuery(c) == [c EXCEPT !.t.nq = @ + 1, !.q = @ @@ (NextId(c) :> PendingQuery)]

\* Transaction::enqueue( q )
Enqueue(c, id, k, o, a) ==
    [c EXCEPT !.t.queue = Append(@, [id |-> id, k |-> k, o |-> o, a |-> a]),
              !.t.log = Append(@, [k |-> k, o |-> o, a |-> a])]

\* new Query( ... ) followed by Transaction::enqueue of it.
EnqueueNew(c, k, o, a) == Enqueue(NewQuery(c), NextId(c), k, o, a)

\* Transaction::execute(): everything enqueued so far is sent.
TExecute(c) == [c EXCEPT !.t.nsent = Len(c.t.queue)]

\* Transaction::commit() and Transaction::rollback(): the statement is
\* enqueued after what is already there, and all of it is sent.
TCommit(c) ==
    TExecute(EnqueueNew([c EXCEPT !.d.commits = @ + 1], "commit", "injector", 0))

TRollback(c) ==
    TExecute(EnqueueNew([c EXCEPT !.d.rollbacks = @ + 1], "rollback", "injector", 0))

\* String::contains(), for the error messages of the database, which name
\* the constraint that was violated.
Contains(e, s) == e = s

NewTransaction ==
    [on |-> TRUE, queue |-> << >>, nsent |-> 0, failed |-> FALSE,
     done |-> FALSE, err |-> "", nq |-> 0, log |-> << >>]

\* ------------------------------------------------------------- resolvers
\*
\* AddressCreator, NewFlagCreator, NewAnnotationCreator and FieldCreator are
\* the same code but for the table, the cache and the constraint; r.items are
\* the addresses (with their ids) or the names the resolver was created for,
\* r.unided the keys of the Dict unided and r.at the places in r.items of the
\* addresses that the last select asked for.

NewResolver(items) ==
    [on |-> TRUE, state |-> 0, items |-> items, unided |-> {}, at |-> {},
     savepoint |-> 0, failed |-> FALSE, done |-> FALSE, q |-> 0]

NoResolver == [NewResolver(<< >>) EXCEPT !.on = FALSE]

\* Flag::find( name ) != 0, AnnotationName::find( name ) with an id,
\* FieldNameCache::translate( name ) != 0, Address::id() != 0.
Known(c, k, x) ==
    CASE k = "flag" -> \E f \in c.cache[k] : Lower(f.name) = Lower(x)
      [] k = "annotation" -> \E f \in c.cache[k] : f.name = x /\ f.id # 0
      [] k = "field" -> \E f \in c.cache[k] : f.name = x
      [] OTHER -> x.id # 0

\* The id under which the process knows x.
IdOf(c, k, x) ==
    CASE k = "flag" -> (CHOOSE f \in c.cache[k] : Lower(f.name) = Lower(x)).id
      [] k = "annotation" -> (CHOOSE f \in c.cache[k] : f.name = x /\ f.id # 0).id
      [] k = "field" -> (CHOOSE f \in c.cache[k] : f.name = x).id
      [] OTHER -> x.id

AddressValue(a) == [name |-> a.name, localpart |-> a.localpart, domain |-> a.domain]

ItemKey(k, x) == IF k = "address" THEN addressKey(x) ELSE KeyOf(k, x)

RECURSIVE InjectorExecute(_)

\* d->owner->execute() as the last statement of a handler whose owner is the
\* Injector: the handler asks for the call, and OwnerExecute makes it.
Notify(c) == [c EXCEPT !.call = TRUE]

OwnerExecute(c) ==
    IF c.call THEN InjectorExecute([c EXCEPT !.call = FALSE]) ELSE c

\* while ( it && i < 1024 ) in selectAddresses(): of the places S of the
\* addresses without id, those that one select asks for. The other
\* creators ask for all at once.
Batch(k, S) ==
    IF k = "address"
    THEN {n \in S : Cardinality({x \in S : x < n}) < MaxSelect}
    ELSE S

\* selectAddresses(), selectFlags(), selectAnnotations(), selectFields()
ResolverSelect(c, k) ==
    LET r       == c.d.res[k]
        all     == {n \in 1..Len(r.items) : ~Known(c, k, r.items[n])}
        unknown == Batch(k, all)
        keys    == {ItemKey(k, r.items[n]) : n \in unknown}
        c1      == [c EXCEPT !.d.res[k].unided = keys, !.d.res[k].at = unknown]
    IN  IF unknown = {}
        THEN [c1 EXCEPT !.d.res[k].state = 4]
        ELSE TExecute(EnqueueNew(
                 [c1 EXCEPT !.d.res[k].state = 1, !.d.res[k].q = NextId(c)],
                 "select", k, [k |-> k, keys |-> keys]))

\* A reading of the select's rows that takes the id one too high.
LearnOffByOne(c, k, row) ==
    IF k = "address"
    THEN LET r    == c.d.res[k]
             key  == addressKey(row.val)
             cand == {n \in r.at :
                         r.items[n].id = 0 /\ addressKey(r.items[n]) = key}
         IN  IF key \in r.unided /\ cand # {}
             THEN LET n == CHOOSE x \in cand : \A y \in cand : y <= x
                  IN  [c EXCEPT !.d.res[k].items[n].id = row.id + 1,
                                !.d.res[k].unided = @ \ {key}]
             ELSE c
    ELSE [c EXCEPT
            !.cache[k] = IF k = "annotation"
                         THEN {f \in @ : f.name # row.val}
                              \cup {[name |-> row.val, id |-> row.id + 1]}
                         ELSE @ \cup {[name |-> row.val, id |-> row.id + 1]},
            !.d.res[k].unided = @ \ {KeyOf(k, row.val)}]

\* What the process learns from one row of the select: new Flag( name, id ),
\* AnnotationName::setId(), FieldNameCache::insert(), Address::setId() on the
\* address that unided holds for the row's key.
Learn(c, k, row) ==
    IF k = "address"
    THEN LET r    == c.d.res[k]
             key  == addressKey(row.val)
             cand == {n \in r.at :
                         r.items[n].id = 0 /\ addressKey(r.items[n]) = key}
         IN  IF key \in r.unided /\ cand # {}
             THEN LET n == CHOOSE x \in cand : \A y \in cand : y <= x
                  IN  [c EXCEPT !.d.res[k].items[n].id = row.id,
                                !.d.res[k].unided = @ \ {key}]
             ELSE c
    ELSE [c EXCEPT
            !.cache[k] = IF k = "annotation"
                         THEN {f \in @ : f.name # row.val}
                              \cup {[name |-> row.val, id |-> row.id]}
                         ELSE @ \cup {[name |-> row.val, id |-> row.id]},
            !.d.res[k].unided = @ \ {KeyOf(k, row.val)}]

RECURSIVE LearnAll(_, _, _)
LearnAll(c, k, rows) ==
    IF rows = << >> THEN c
    ELSE LearnAll(Learn(c, k, Head(rows)), k, Tail(rows))

\* A processAddresses() that is content with the answer to one select.
ResolverProcessOnce(c, k) ==
    LET res == c.q[c.d.res[k].q]
        c1  == LearnAll(c, k, SetToSeq(res.rows))
    IN  IF ~res.done THEN c1
        ELSE IF c1.d.res[k].unided = {}
        THEN [c1 EXCEPT !.d.res[k].state = 4]
        ELSE [c1 EXCEPT !.d.res[k].state = 2]

\* processAddresses(), processFlags(), processAnnotations(), processFields()
ResolverProcess(c, k) ==
    LET res == c.q[c.d.res[k].q]
        c1  == LearnAll(c, k, SetToSeq(res.rows))
    IN  IF ~res.done THEN c1
        ELSE IF c1.d.res[k].unided = {}
        THEN ResolverSelect([c1 EXCEPT !.d.res[k].state = 0], k)
        ELSE [c1 EXCEPT !.d.res[k].state = 2]

\* The name of the savepoint a resolver or the BidFetcher uses.
SavepointName(k, n) == << SavepointLetter(k), n >>

\* The lines of the COPY: the addresses that unided holds, or its keys.
CopyValues(c, k) ==
    LET r == c.d.res[k]
    IN  IF k = "address"
        THEN {AddressValue(r.items[n]) :
                 n \in {x \in r.at :
                           /\ r.items[x].id = 0
                           /\ addressKey(r.items[x]) \in r.unided
                           /\ \A y \in r.at :
                                (r.items[y].id = 0 /\ addressKey(r.items[y])
                                    = addressKey(r.items[x])) => y <= x}}
        ELSE r.unided

\* insertAddresses(), insertFlags(), insertAnnotations(), insertFields()
ResolverInsert(c, k) ==
    LET r  == c.d.res[k]
        c1 == EnqueueNew(c, "savepoint", k, SavepointName(k, r.savepoint))
        c2 == [c1 EXCEPT !.d.res[k].state = 3,
                         !.d.res[k].q = NextId(c1),
                         !.d.res[k].unided = IF k = "address" THEN {} ELSE @]
    IN  TExecute(EnqueueNew(c2, "copy", k, [k |-> k, vals |-> CopyValues(c, k)]))

\* A processInsert() that rolls back and selects again, but does not count.
ResolverProcessInsertNotCounting(c, k) ==
    LET r   == c.d.res[k]
        res == c.q[r.q]
    IN  IF ~res.done THEN c
        ELSE IF ~res.failed
        THEN ResolverSelect([c EXCEPT !.d.res[k].state = 0], k)
        ELSE IF Contains(res.err, ConstraintOf(k))
        THEN ResolverSelect(
                 EnqueueNew([c EXCEPT !.d.res[k].state = 0,
                                      !.d.res[k].q = NextId(c)],
                            "rollback_to", k, SavepointName(k, r.savepoint)), k)
        ELSE [c EXCEPT !.d.res[k].failed = TRUE, !.d.res[k].state = 4]

\* A processInsert() that rolls back and leaves it at that.
ResolverProcessInsertGivingUp(c, k) ==
    LET r   == c.d.res[k]
        res == c.q[r.q]
    IN  IF ~res.done THEN c
        ELSE IF ~res.failed
        THEN ResolverSelect([c EXCEPT !.d.res[k].state = 0], k)
        ELSE IF Contains(res.err, ConstraintOf(k))
        THEN EnqueueNew([c EXCEPT !.d.res[k].state = 4,
                                  !.d.res[k].savepoint = @ + 1],
                        "rollback_to", k, SavepointName(k, r.savepoint))
        ELSE [c EXCEPT !.d.res[k].failed = TRUE, !.d.res[k].state = 4]

\* The four processInsert()
ResolverProcessInsert(c, k) ==
    LET r   == c.d.res[k]
        res == c.q[r.q]
    IN  IF ~res.done THEN c
        ELSE IF ~res.failed
        THEN ResolverSelect([c EXCEPT !.d.res[k].state = 0], k)
        ELSE IF Contains(res.err, ConstraintOf(k))
        THEN ResolverSelect(
                 EnqueueNew([c EXCEPT !.d.res[k].state = 0,
                                      !.d.res[k].savepoint = @ + 1,
                                      !.d.res[k].q = NextId(c)],
                            "rollback_to", k, SavepointName(k, r.savepoint)), k)
        ELSE [c EXCEPT !.d.res[k].failed = TRUE, !.d.res[k].state = 4]

\* AddressCreator::execute() and its three copies
ResolverExecute(c, k) ==
    LET c1 == IF c.d.res[k].state = 0 THEN ResolverSelect(c, k) ELSE c
        c2 == IF c1.d.res[k].state = 1 THEN ResolverProcess(c1, k) ELSE c1
        c3 == IF c2.d.res[k].state = 2 THEN ResolverInsert(c2, k) ELSE c2
        c4 == IF c3.d.res[k].state = 3 THEN ResolverProcessInsert(c3, k) ELSE c3
    IN  IF c4.d.res[k].state = 4
        THEN Notify([c4 EXCEPT !.d.res[k].state = 42,
                                        !.d.res[k].done = TRUE])
        ELSE c4

\* --------------------------------------------------------------- fetchers

RECURSIVE BidFetcherExecute(_)

\* Every failed insert is beyond recovery.
AnyFailure(qy) == qy.failed

\* BidFetcher::execute(), state 1: the insert failed, and not because the
\* hash is in the table already.
Unrecoverable(qy) == qy.failed /\ ~Contains(qy.err, "bodyparts_hash_key")

\* One savepoint name for every bodypart.
BidSavepointSame(f) == SavepointName("bodypart", 0)

\* BidFetcher::execute(), state 0: "a" + fn( savepoint ), the name of the
\* savepoint of the bodypart that is being inserted.
BidSavepoint(f) == SavepointName("bodypart", f.savepoint)

\* BidFetcher::execute()
BidFetcherExecute(c) ==
    LET f    == c.d.bidFetcher
        bs   == c.d.bodyparts
        \* while ( *li && !(*li)->insert ) ++(*li);
        rest == {n \in f.li..Len(bs) : bs[n].insert # 0}
        li   == IF rest = {} THEN Len(bs) + 1
                ELSE CHOOSE n \in rest : \A x \in rest : n <= x
        cl   == [c EXCEPT !.d.bidFetcher.li = li]
        sp   == BidSavepoint(f)
        Fail(cx, e) ==
            Notify([cx EXCEPT !.d.bidFetcher.done = TRUE,
                                       !.d.bidFetcher.failed = TRUE,
                                       !.d.bidFetcher.error = e])
    IN  IF f.done \/ f.li > Len(bs)
        THEN Notify([c EXCEPT !.d.bidFetcher.done = TRUE])
        ELSE IF li > Len(bs)
        THEN Notify([cl EXCEPT !.d.bidFetcher.done = TRUE])
        ELSE LET b == bs[li]
             IN  CASE f.state = 0 ->
                        TExecute(Enqueue(
                            EnqueueNew([cl EXCEPT !.d.bidFetcher.state = 1],
                                       "savepoint", "bidFetcher", sp),
                            b.insert, "copy", "bidFetcher",
                            [k |-> "bodypart", vals |-> {b.row}]))
                   [] f.state = 1 ->
                        IF ~c.q[b.insert].done THEN cl
                        ELSE IF Unrecoverable(c.q[b.insert])
                        THEN Fail(cl, c.q[b.insert].err)
                        ELSE LET c1 == IF c.q[b.insert].failed
                                       THEN EnqueueNew(cl, "rollback_to",
                                                       "bidFetcher", sp)
                                       ELSE cl
                             IN  TExecute(Enqueue(
                                     [c1 EXCEPT !.d.bidFetcher.state = 2],
                                     b.select, "select", "bidFetcher",
                                     [k |-> "bodypart", keys |-> {b.row.hash}]))
                   [] OTHER ->
                        IF ~c.q[b.select].done THEN cl
                        ELSE IF c.q[b.select].failed \/ c.q[b.select].rows = {}
                        THEN Fail(cl, IF c.q[b.select].err = ""
                                      THEN "No matching bodypart found"
                                      ELSE c.q[b.select].err)
                        ELSE BidFetcherExecute(
                                 [cl EXCEPT
                                    !.d.bodyparts[li].bid =
                                        (CHOOSE r \in c.q[b.select].rows : TRUE).id,
                                    !.d.bidFetcher.li = li + 1,
                                    !.d.bidFetcher.state = 0,
                                    !.d.bidFetcher.savepoint = @ + 1])

\* MidFetcher::execute()
MidFetcherExecute(c) ==
    LET f   == c.d.midFetcher
        sel == c.q[f.select]
    IN  IF f.finished \/ ~sel.done THEN c
        ELSE IF sel.rows = {}
        THEN Notify([c EXCEPT !.d.midFetcher.failed = TRUE,
                                       !.d.midFetcher.finished = TRUE])
        ELSE Notify(
                 [c EXCEPT !.d.midFetcher.id = (CHOOSE r \in sel.rows : TRUE).id,
                           !.d.midFetcher.finished = TRUE])

\* The sessions of the process that have mailbox m selected, in the order of
\* Mailbox::sessions().
SessionsOf(c, m) == {s \in DOMAIN c.session : c.session[s].mailbox = m}

FirstSession(c, m) == CHOOSE s \in SessionsOf(c, m) : \A x \in SessionsOf(c, m) : s <= x

\* A UidFetcher that never advances first_recent.
UidFetcherProcessPlain(c, id) ==
    LET li == c.d.uidFetcher.li
        r  == CHOOSE x \in c.q[id].rows : TRUE
        m  == c.d.mailboxes[li].mailbox
        c1 == [c EXCEPT
                 !.d.mailboxes[li].uid = r.uidnext,
                 !.d.mailboxes[li].ms = r.nextmodseq,
                 !.d.uidFetcher.li = li + 1]
    IN  EnqueueNew(c1, "update_mailbox", "none", [m |-> m, recent |-> FALSE])

\* A UidFetcher that advances first_recent whether or not the mailbox has a
\* session.
UidFetcherProcessAlwaysRecent(c, id) ==
    LET li     == c.d.uidFetcher.li
        r      == CHOOSE x \in c.q[id].rows : TRUE
        m      == c.d.mailboxes[li].mailbox
        recent == r.uidnext = r.first_recent
        c1     == [c EXCEPT
                     !.d.mailboxes[li].uid = r.uidnext,
                     !.d.mailboxes[li].ms = r.nextmodseq,
                     !.d.mailboxes[li].recentIn =
                         IF recent /\ SessionsOf(c, m) # {}
                         THEN FirstSession(c, m) ELSE @,
                     !.d.uidFetcher.li = li + 1]
    IN  EnqueueNew(c1, "update_mailbox", "none", [m |-> m, recent |-> recent])

\* A UidFetcher that records the UID and leaves uidnext as it is.
UidFetcherProcessNoIncrement(c, id) ==
    LET li     == c.d.uidFetcher.li
        r      == CHOOSE x \in c.q[id].rows : TRUE
        m      == c.d.mailboxes[li].mailbox
        recent == r.uidnext = r.first_recent /\ SessionsOf(c, m) # {}
    IN  [c EXCEPT !.d.mailboxes[li].uid = r.uidnext,
                  !.d.mailboxes[li].ms = r.nextmodseq,
                  !.d.mailboxes[li].recentIn =
                      IF recent THEN FirstSession(c, m) ELSE @,
                  !.d.uidFetcher.li = li + 1]

\* A UidFetcher that takes the modseq from the wrong column of the row.
UidFetcherProcessWrongColumn(c, id) ==
    LET li     == c.d.uidFetcher.li
        r      == CHOOSE x \in c.q[id].rows : TRUE
        m      == c.d.mailboxes[li].mailbox
        recent == r.uidnext = r.first_recent /\ SessionsOf(c, m) # {}
        c1     == [c EXCEPT
                     !.d.mailboxes[li].uid = r.uidnext,
                     !.d.mailboxes[li].ms = r.uidnext,
                     !.d.mailboxes[li].recentIn =
                         IF recent THEN FirstSession(c, m) ELSE @,
                     !.d.uidFetcher.li = li + 1]
    IN  EnqueueNew(c1, "update_mailbox", "none", [m |-> m, recent |-> recent])

\* The severity UidFetcher::process() logs its note with for the UID uid.
Severity(uid) ==
    IF uid > UidError
    THEN IF uid > UidDisaster THEN "Disaster" ELSE "Error"
    ELSE "None"

\* A UidFetcher that never logs more than an error.
UidFetcherProcessCalm(c, id) ==
    LET li     == c.d.uidFetcher.li
        r      == CHOOSE x \in c.q[id].rows : TRUE
        m      == c.d.mailboxes[li].mailbox
        recent == r.uidnext = r.first_recent /\ SessionsOf(c, m) # {}
        c1     == [c EXCEPT
                     !.d.mailboxes[li].uid = r.uidnext,
                     !.d.mailboxes[li].level =
                         IF r.uidnext > UidError THEN "Error" ELSE "None",
                     !.d.mailboxes[li].ms = r.nextmodseq,
                     !.d.mailboxes[li].recentIn =
                         IF recent THEN FirstSession(c, m) ELSE @,
                     !.d.uidFetcher.li = li + 1]
    IN  EnqueueNew(c1, "update_mailbox", "none", [m |-> m, recent |-> recent])

\* UidFetcher::process( q ): the row of the lock query goes to the Uid that
\* the iterator li is at, a note is logged if few UIDs are left, and the
\* increment is enqueued.
UidFetcherProcess(c, id) ==
    LET li     == c.d.uidFetcher.li
        r      == CHOOSE x \in c.q[id].rows : TRUE
        m      == c.d.mailboxes[li].mailbox
        recent == r.uidnext = r.first_recent /\ SessionsOf(c, m) # {}
        c1     == [c EXCEPT
                     !.d.mailboxes[li].uid = r.uidnext,
                     !.d.mailboxes[li].level = Severity(r.uidnext),
                     !.d.mailboxes[li].ms = r.nextmodseq,
                     !.d.mailboxes[li].recentIn =
                         IF recent THEN FirstSession(c, m) ELSE @,
                     !.d.uidFetcher.li = li + 1]
    IN  EnqueueNew(c1, "update_mailbox", "none", [m |-> m, recent |-> recent])

RECURSIVE UidFetcherLoop(_)
UidFetcherLoop(c) ==
    LET qs == c.d.uidFetcher.queries
    IN  IF qs = << >> \/ ~c.q[Head(qs)].done THEN c
        ELSE LET c1 == [c EXCEPT !.d.uidFetcher.queries = Tail(qs)]
             IN  IF c.q[Head(qs)].rows # {}
                 THEN UidFetcherLoop(UidFetcherProcess(c1, Head(qs)))
                 ELSE UidFetcherLoop([c1 EXCEPT !.d.uidFetcher.failed = TRUE])

\* UidFetcher::execute()
UidFetcherExecute(c) ==
    LET c1 == UidFetcherLoop(c)
    IN  IF c1.d.uidFetcher.queries = << >> THEN Notify(c1) ELSE c1

\* --------------------------------------------------------------- injector

\* PgUtf8Codec::fromUnicode(): the bytes of a text.
FromUnicode(text) == 10 + text

\* HTML::asText(): the text of an HTML document, without its markup.
AsText(text) == IF text = 2 THEN 1 ELSE text

\* MD5::hash( data ).hex(), taken to be free of collisions.
Md5(bytes) == 100 + bytes

Row(t, msg, m, uid, ms, ref) ==
    [t |-> t, msg |-> msg, m |-> m, uid |-> uid, ms |-> ms, ref |-> ref]

Return(c) == [c EXCEPT !.ret = TRUE]

\* Injector::error() reads d->bidFetcher->failed once the injection has
\* failed and the message is valid; d->bidFetcher is null until
\* CreatingFields has passed.
NullFetcher(c) == c.d.failed /\ c.d.message.valid /\ ~c.d.bidFetcher.on

\* Injector::error(); "undefined" stands for what a read through the null
\* pointer returns when the process survives it.
error(c) ==
    IF ~c.d.failed THEN ""
    ELSE IF ~c.d.message.valid THEN "invalid message"
    ELSE IF NullFetcher(c) THEN "undefined"
    ELSE IF c.d.bidFetcher.failed THEN c.d.bidFetcher.error
    ELSE IF ~c.t.on THEN ""
    ELSE c.t.err

\* Injector::done()
done(x) == x.failed \/ x.state = "Done"

\* A finish() that keeps the owner.
finishKeepingOwner(c) ==
    IF ~c.d.owner THEN c
    ELSE IF NullFetcher(c) /\ c.ub THEN [c EXCEPT !.d.crashed = TRUE]
    ELSE [c EXCEPT !.d.notified = @ + 1, !.d.reason = error(c)]

\* Injector::finish(): it logs error() before it notifies the owner, and
\* the read through the null pointer either ends the process (c.ub) or
\* goes unnoticed.
finish(c) ==
    IF ~c.d.owner THEN c
    ELSE IF NullFetcher(c) /\ c.ub THEN [c EXCEPT !.d.crashed = TRUE]
    ELSE [c EXCEPT !.d.notified = @ + 1, !.d.owner = FALSE,
                   !.d.reason = error(c)]

\* d->state = s, with a record of the move when s is another state.
Enter(c, s) ==
    [c EXCEPT !.d.state = s,
              !.d.moves = IF c.d.state = s THEN @ ELSE @ \cup {<< c.d.state, s >>}]

\* What every failing phase does.
FailAndRollback(c) ==
    Enter(TRollback([c EXCEPT !.d.failed = TRUE]), "AwaitingCompletion")

\* Injector::createFlags(), createAnnotationNames() and createFields(): a
\* resolver is created for the names the process does not know, and run.
createNames(c, k, names) ==
    LET unknown == SelectSeq(names, LAMBDA x : ~Known(c, k, x))
    IN  IF unknown = << >> THEN c
        ELSE OwnerExecute(
                 ResolverExecute([c EXCEPT !.d.res[k] = NewResolver(unknown)], k))

StoreText(p) == p.type = "" \/ p.type = "text"

\* A store-decision that keeps the data of no multipart, signed or not.
StoreDataOfLeaves(p) ==
    /\ p.type # ""
    /\ IF p.type = "text" THEN p.subtype = "html"
       ELSE /\ p.type # "multipart"
            /\ ~(p.type = "message" /\ p.subtype = "rfc822")

StoreData(p) ==
    /\ p.type # ""
    /\ IF p.type = "text" THEN p.subtype = "html"
       ELSE /\ ~(p.type = "multipart" /\ p.subtype # "signed")
            /\ ~(p.type = "message" /\ p.subtype = "rfc822")

\* The values setupBodyparts() binds to the insert of the part p.
BodypartRow(p) ==
    LET data == IF StoreText(p) THEN FromUnicode(p.text) ELSE p.data
    IN  [hash |-> Md5(data),
         text |-> IF StoreText(p)
                  THEN IF StoreData(p) THEN FromUnicode(AsText(p.text)) ELSE data
                  ELSE 0,
         data |-> IF StoreData(p) THEN data ELSE 0]

\* Injector::setupBodyparts()
RECURSIVE setupBodyparts(_, _)
setupBodyparts(c, n) ==
    IF n > Len(c.d.bodyparts) THEN c
    ELSE LET p == c.d.message.parts[n]
         IN  IF StoreText(p) \/ StoreData(p)
             THEN LET c1 == NewQuery(c)
                      c2 == NewQuery(c1)
                  IN  setupBodyparts(
                          [c2 EXCEPT !.d.bodyparts[n].insert = NextId(c),
                                     !.d.bodyparts[n].select = NextId(c1),
                                     !.d.bodyparts[n].row = BodypartRow(p)], n + 1)
             ELSE setupBodyparts(c, n + 1)

\* The key of the Dict naked of resolveAddressLinks(): localpart@domain, as
\* written.
nakedKey(a) == << a.localpart, a.domain >>

\* naked.find( k ): the place in the list of addresses of the address that
\* was last inserted with the key k, or 0.
nakedFind(list, k) ==
    LET S == {n \in 1..Len(list) : nakedKey(list[n]) = k}
    IN  IF S = {} THEN 0 ELSE CHOOSE n \in S : \A x \in S : x <= n

NewAddress(a) ==
    [name |-> a.name, localpart |-> a.localpart, domain |-> a.domain, id |-> 0]

\* The loop of resolveAddressLinks() over d->remoteRecipients: rs are the
\* recipients still to look at, list the addresses collected, front the
\* addresses put at the head of d->remoteRecipients in place of a recipient
\* and back the recipients that stay, both as places in list.
RECURSIVE placeRecipients(_, _, _, _)
placeRecipients(list, rs, front, back) ==
    IF rs = << >> THEN [list |-> list, at |-> front \o back]
    ELSE LET same == nakedFind(list, nakedKey(Head(rs)))
         IN  IF same # 0
             THEN placeRecipients(list, Tail(rs), << same >> \o front, back)
             ELSE placeRecipients(Append(list, NewAddress(Head(rs))), Tail(rs),
                                  front, Append(back, Len(list) + 1))

\* Injector::resolveAddressLinks(): the addresses of the header fields, each
\* canonical key once, then the remote recipients and the sender that are
\* not among them, go to an AddressCreator.
resolveAddressLinks(c) ==
    LET as    == c.d.message.addresses
        first == {n \in 1..Len(as) :
                    \A x \in 1..(n - 1) : addressKey(as[x]) # addressKey(as[n])}
        list  == [n \in 1..Cardinality(first) |->
                    LET x == CHOOSE y \in first :
                                    Cardinality({z \in first : z < y}) = n - 1
                    IN  NewAddress(as[x])]
        rp    == placeRecipients(list, c.d.remoteRecipients, << >>, << >>)
        sa    == IF c.d.sender = << >> THEN 0
                 ELSE nakedFind(rp.list, nakedKey(c.d.sender[1]))
        all   == IF c.d.sender = << >> \/ sa # 0 THEN rp.list
                 ELSE Append(rp.list, NewAddress(c.d.sender[1]))
    IN  OwnerExecute(
            ResolverExecute(
                [c EXCEPT !.d.res["address"] = NewResolver(all),
                          !.d.recipientsAt = rp.at,
                          !.d.senderAt = IF c.d.sender = << >> THEN 0
                                         ELSE IF sa # 0 THEN sa ELSE Len(all)],
                "address"))

\* Injector::selectMessageId()
selectMessageId(c) ==
    LET c1 == EnqueueNew(c, "insert_message", "midFetcher", 0)
        c2 == EnqueueNew(c1, "select_currval", "midFetcher", 0)
    IN  [c2 EXCEPT !.d.midFetcher =
            [on |-> TRUE, insert |-> NextId(c), select |-> NextId(c1),
             failed |-> FALSE, finished |-> FALSE, id |-> 0]]

\* Injector::selectUids(): one lock query for each target, in list order.
RECURSIVE selectUids(_, _)
selectUids(c, n) ==
    IF n > Len(c.d.mailboxes) THEN c
    ELSE selectUids(
             EnqueueNew([c EXCEPT !.d.uidFetcher.on = TRUE,
                                  !.d.uidFetcher.queries = Append(@, NextId(c))],
                        "lock", "uidFetcher", c.d.mailboxes[n].mailbox), n + 1)

\* Injector::insertMessages()
insertMessages(c) ==
    IF c.d.mailboxes = << >> THEN c
    ELSE EnqueueNew(c, "insert_rows", "none",
             {Row("mailbox_messages", c.d.messageId, u.mailbox, u.uid, u.ms, 0) :
                 u \in Range(c.d.mailboxes)})

\* Injector::linkBodyparts()
linkBodyparts(c) ==
    EnqueueNew(c, "insert_rows", "none",
        {Row("part_numbers", c.d.messageId, 0, 0, 0, 0)}
        \cup {Row("part_numbers", c.d.messageId, 0, 0, n, c.d.bodyparts[n].bid) :
                 n \in 1..Len(c.d.bodyparts)})

\* Injector::linkHeaderFields()
linkHeaderFields(c) ==
    EnqueueNew(c, "insert_rows", "none",
        {Row("header_fields", c.d.messageId, 0, 0, n,
             IF Known(c, "field", c.d.message.fields[n])
             THEN IdOf(c, "field", c.d.message.fields[n]) ELSE 0) :
            n \in 1..Len(c.d.message.fields)})

\* Injector::linkDates()
linkDates(c) ==
    IF ~c.d.message.date THEN c
    ELSE EnqueueNew(c, "insert_rows", "none",
             {Row("date_fields", c.d.messageId, 0, 0, 0, 0)})

\* The loop of insertDeliveries() over d->remoteRecipients, from place n on.
RECURSIVE insertRecipients(_, _)
insertRecipients(c, n) ==
    IF n > Len(c.d.recipientsAt) THEN c
    ELSE insertRecipients(
             EnqueueNew(c, "insert_recipient", "none",
                 [recipient |-> c.d.res["address"].items[c.d.recipientsAt[n]].id,
                  n |-> n]), n + 1)

\* An insertDeliveries() that inserts a deliveries row ahead of each
\* recipient.
RECURSIVE insertEach(_, _)
insertEach(c, n) ==
    IF n > Len(c.d.recipientsAt) THEN c
    ELSE LET c1 == EnqueueNew(c, "insert_delivery", "none",
                       [sender |-> c.d.res["address"].items[c.d.senderAt].id,
                        msg |-> c.d.messageId])
         IN  insertEach(
                 EnqueueNew(c1, "insert_recipient", "none",
                     [recipient |-> c.d.res["address"].items[c.d.recipientsAt[n]].id,
                      n |-> n]), n + 1)

insertDeliveriesEach(c) ==
    IF c.d.remoteRecipients = << >> THEN c ELSE insertEach(c, 1)

\* Injector::insertDeliveries(), for an injection that was given a sender
\* with its recipients.
insertDeliveries(c) ==
    IF c.d.remoteRecipients = << >> THEN c
    ELSE insertRecipients(
             EnqueueNew(c, "insert_delivery", "none",
                 [sender |-> c.d.res["address"].items[c.d.senderAt].id,
                  msg |-> c.d.messageId]), 1)

\* Injector::linkAddresses(); the address of a link is the first of its
\* canonical key in the message.
linkAddresses(c) ==
    LET as    == c.d.message.addresses
        items == c.d.res["address"].items
        Obj(a) == CHOOSE n \in 1..Len(items) :
                    /\ addressKey(items[n]) = addressKey(a)
                    /\ \A x \in 1..(n - 1) : addressKey(items[x]) # addressKey(a)
    IN  EnqueueNew(c, "insert_rows", "none",
            {Row("address_fields", c.d.messageId, 0, 0, n, items[Obj(as[n])].id) :
                n \in 1..Len(as)})

\* Injector::linkFlags() and linkAnnotations(): one insert for each name and
\* each target.
RECURSIVE linkNames(_, _, _, _)
linkNames(c, k, t, pairs) ==
    IF pairs = << >> THEN c
    ELSE LET name == Head(pairs)[1]
             u    == c.d.mailboxes[Head(pairs)[2]]
         IN  linkNames(
                 EnqueueNew(c, "insert_rows", "injector",
                     {Row(t, c.d.messageId, u.mailbox, u.uid, 0, IdOf(c, k, name))}),
                 k, t, Tail(pairs))

Pairs(names, n) ==
    [x \in 1..(Len(names) * n) |->
        << names[((x - 1) \div n) + 1], ((x - 1) % n) + 1 >>]

\* A loop over the sessions that adds the UID to the recent set of every
\* session of the mailbox.
addToAllSessions(sessions, u) ==
    [s \in DOMAIN sessions |->
        IF sessions[s].mailbox # u.mailbox THEN sessions[s]
        ELSE [sessions[s] EXCEPT !.recent = @ \cup {u.uid},
                                 !.unannounced = @ \cup {u.uid}]]

\* The loop of announce() over m->sessions(): addRecent( uid ) for the
\* session that is mi->recentIn, addUnannounced( uid ) for every one.
addToSessions(sessions, u) ==
    [s \in DOMAIN sessions |->
        IF sessions[s].mailbox # u.mailbox THEN sessions[s]
        ELSE [sessions[s] EXCEPT
                !.recent = IF s = u.recentIn THEN @ \cup {u.uid} ELSE @,
                !.unannounced = @ \cup {u.uid}]]

\* An update of the Mailbox object that takes the injection's values
\* whatever the object holds.
setUidnextAndNextModSeqAlways(c, u) ==
    [c EXCEPT
        !.mailbox[u.mailbox] = [uidnext |-> 1 + u.uid, nextmodseq |-> 1 + u.ms],
        !.occ = Append(@, [m |-> u.mailbox, uidnext |-> 1 + u.uid,
                           nextmodseq |-> 1 + u.ms])]

\* An update of the Mailbox object that expects the UIDs one after the
\* other: it takes the injection's values where the object holds just them.
setUidnextAndNextModSeqInOrder(c, u) ==
    IF c.mailbox[u.mailbox].uidnext = u.uid
    THEN [c EXCEPT
            !.mailbox[u.mailbox] = [uidnext |-> 1 + u.uid, nextmodseq |-> 1 + u.ms],
            !.occ = Append(@, [m |-> u.mailbox, uidnext |-> 1 + u.uid,
                               nextmodseq |-> 1 + u.ms])]
    ELSE c

\* The rest of the loop body of announce(): the Mailbox object's uidnext and
\* nextmodseq are raised, and the peers are told of it.
setUidnextAndNextModSeq(c, u) ==
    LET m  == u.mailbox
        mo == c.mailbox[m]
    IN  IF mo.uidnext <= u.uid /\ mo.nextmodseq <= u.ms
        THEN [c EXCEPT
                !.mailbox[m] = [uidnext |-> 1 + u.uid, nextmodseq |-> 1 + u.ms],
                !.occ = Append(@, [m |-> m, uidnext |-> 1 + u.uid,
                                   nextmodseq |-> 1 + u.ms])]
        ELSE IF mo.uidnext <= u.uid
        THEN [c EXCEPT
                !.mailbox[m].uidnext = 1 + u.uid,
                !.occ = Append(@, [m |-> m, uidnext |-> 1 + u.uid,
                                   nextmodseq |-> 0])]
        ELSE IF mo.nextmodseq <= u.ms
        THEN [c EXCEPT
                !.mailbox[m].nextmodseq = 1 + u.ms,
                !.occ = Append(@, [m |-> m, uidnext |-> 0,
                                   nextmodseq |-> 1 + u.ms])]
        ELSE c

\* Injector::announce(), from the n-th target mailbox on.
RECURSIVE announce(_, _)
announce(c, n) ==
    IF n > Len(c.d.mailboxes) THEN c
    ELSE LET u == c.d.mailboxes[n]
         IN  announce(setUidnextAndNextModSeq(
                          [c EXCEPT !.session = addToSessions(c.session, u)], u),
                      n + 1)

\* Injector::execute(), block by block. A block that returns sets c.ret, and
\* the blocks after it do nothing.

\* An Inactive block that opens the transaction before it looks at the
\* message.
ExecInactiveOpening(c) ==
    IF c.ret \/ c.d.state # "Inactive" THEN c
    ELSE IF ~c.d.message.valid
    THEN Return(finish([c EXCEPT !.t = NewTransaction, !.d.failed = TRUE]))
    ELSE createNames(Enter([c EXCEPT !.t = NewTransaction], "CreatingFlags"),
                     "flag", c.d.message.flags)

ExecInactive(c) ==
    IF c.ret \/ c.d.state # "Inactive" THEN c
    ELSE IF ~c.d.message.valid
    THEN Return(finish([c EXCEPT !.d.failed = TRUE]))
    ELSE createNames(Enter([c EXCEPT !.t = NewTransaction], "CreatingFlags"),
                     "flag", c.d.message.flags)

ExecCreatingFlags(c) ==
    IF c.ret \/ c.d.state # "CreatingFlags" THEN c
    ELSE IF c.d.res["flag"].on /\ ~c.d.res["flag"].done THEN Return(c)
    ELSE IF c.d.res["flag"].on /\ c.d.res["flag"].failed THEN FailAndRollback(c)
    ELSE createNames(Enter(c, "CreatingAnnotationNames"),
                     "annotation", c.d.message.annotations)

ExecCreatingAnnotationNames(c) ==
    IF c.ret \/ c.d.state # "CreatingAnnotationNames" THEN c
    ELSE IF c.d.res["annotation"].on /\ ~c.d.res["annotation"].done THEN Return(c)
    ELSE IF c.d.res["annotation"].on /\ c.d.res["annotation"].failed
    THEN FailAndRollback(c)
    ELSE createNames(Enter(c, "CreatingFields"),
                     "field", c.d.message.fields)

ExecCreatingFields(c) ==
    IF c.ret \/ c.d.state # "CreatingFields" THEN c
    ELSE IF c.d.res["field"].on /\ ~c.d.res["field"].done THEN Return(c)
    ELSE IF c.d.res["field"].on /\ c.d.res["field"].failed THEN FailAndRollback(c)
    ELSE OwnerExecute(BidFetcherExecute(
             setupBodyparts(Enter([c EXCEPT !.d.bidFetcher.on = TRUE],
                                  "InsertingBodyparts"), 1)))

ExecInsertingBodyparts(c) ==
    IF c.ret \/ c.d.state # "InsertingBodyparts" THEN c
    ELSE IF ~c.d.bidFetcher.done THEN Return(c)
    ELSE IF c.d.bidFetcher.failed THEN FailAndRollback(c)
    ELSE resolveAddressLinks(Enter(c, "InsertingAddresses"))

ExecInsertingAddresses(c) ==
    IF c.ret \/ c.d.state # "InsertingAddresses" THEN c
    ELSE IF ~c.d.res["address"].done THEN Return(c)
    ELSE IF c.d.res["address"].failed THEN FailAndRollback(c)
    ELSE Enter(TExecute(selectUids(selectMessageId(c), 1)), "SelectingUids")

ExecSelectingUids(c) ==
    IF c.ret \/ c.d.state # "SelectingUids" \/ c.t.failed THEN c
    ELSE IF ~c.d.midFetcher.finished \/ c.d.uidFetcher.queries # << >>
    THEN Return(c)
    ELSE IF c.d.midFetcher.failed THEN FailAndRollback(c)
    ELSE Enter(c, "InsertingMessages")

\* The inserts of Injector::execute() in InsertingMessages.
InsertAndLink(c) ==
    linkAddresses(insertDeliveries(linkDates(linkHeaderFields(linkBodyparts(
        insertMessages([c EXCEPT !.d.messageId = c.d.midFetcher.id]))))))

\* An InsertingMessages that commits what it has inserted before the flags
\* and annotations are linked.
ExecInsertingMessagesCommitting(c) ==
    IF c.ret \/ c.d.state # "InsertingMessages" \/ c.t.failed THEN c
    ELSE Enter(TCommit(InsertAndLink(c)), "LinkingAddresses")

\* An InsertingMessages that enqueues its inserts twice.
ExecInsertingMessagesTwice(c) ==
    IF c.ret \/ c.d.state # "InsertingMessages" \/ c.t.failed THEN c
    ELSE TExecute(Enter(InsertAndLink(InsertAndLink(c)), "LinkingAddresses"))

ExecInsertingMessages(c) ==
    IF c.ret \/ c.d.state # "InsertingMessages" \/ c.t.failed THEN c
    ELSE TExecute(Enter(InsertAndLink(c), "LinkingAddresses"))

ExecLinkingAddresses(c) ==
    IF c.ret \/ c.d.state # "LinkingAddresses" THEN c
    ELSE IF \E n \in 1..Len(c.d.message.flags) :
                ~Known(c, "flag", c.d.message.flags[n])
    THEN Return(c)
    ELSE Enter(linkNames(c, "flag", "flags",
                         Pairs(c.d.message.flags, Len(c.d.mailboxes))),
               "LinkingFlags")

ExecLinkingFlags(c) ==
    IF c.ret \/ c.d.state # "LinkingFlags" THEN c
    ELSE IF \E n \in 1..Len(c.d.message.annotations) :
                ~Known(c, "annotation", c.d.message.annotations[n])
    THEN Return(c)
    ELSE Enter(linkNames(c, "annotation", "annotations",
                         Pairs(c.d.message.annotations, Len(c.d.mailboxes))),
               "LinkingAnnotations")

\* An end of execute() that rolls a failed transaction back.
ExecCommitRollingBack(c) ==
    IF c.ret \/ ~(c.d.state = "LinkingAnnotations" \/ c.t.failed) THEN c
    ELSE Enter(IF Rank(c.d.state) < Rank("AwaitingCompletion")
               THEN (IF c.t.failed THEN TRollback(c) ELSE TCommit(c))
               ELSE c,
               "AwaitingCompletion")

\* An end of execute() that commits whenever it is reached.
ExecCommitAgain(c) ==
    IF c.ret \/ ~(c.d.state = "LinkingAnnotations" \/ c.t.failed) THEN c
    ELSE Enter(TCommit(c), "AwaitingCompletion")

ExecCommit(c) ==
    IF c.ret \/ ~(c.d.state = "LinkingAnnotations" \/ c.t.failed) THEN c
    ELSE Enter(IF Rank(c.d.state) < Rank("AwaitingCompletion") THEN TCommit(c)
               ELSE c,
               "AwaitingCompletion")

\* An AwaitingCompletion that announces whatever the outcome.
ExecAwaitingCompletionAnnouncing(c) ==
    IF c.ret \/ c.d.state # "AwaitingCompletion" THEN c
    ELSE IF ~c.t.done THEN Return(c)
    ELSE LET c1 == IF ~c.d.failed THEN [c EXCEPT !.d.failed = c.t.failed] ELSE c
         IN  finish(Enter(announce([c1 EXCEPT !.d.announced = @ + 1], 1), "Done"))

ExecAwaitingCompletion(c) ==
    IF c.ret \/ c.d.state # "AwaitingCompletion" THEN c
    ELSE IF ~c.t.done THEN Return(c)
    ELSE LET c1 == IF ~c.d.failed THEN [c EXCEPT !.d.failed = c.t.failed] ELSE c
             c2 == IF c1.d.failed THEN c1
                   ELSE announce([c1 EXCEPT !.d.announced = @ + 1], 1)
         IN  finish(Enter(c2, "Done"))

\* Injector::execute()
InjectorExecute(c) ==
    [ExecAwaitingCompletion(ExecCommit(ExecLinkingFlags(ExecLinkingAddresses(
     ExecInsertingMessages(ExecSelectingUids(ExecInsertingAddresses(
     ExecInsertingBodyparts(ExecCreatingFields(ExecCreatingAnnotationNames(
     ExecCreatingFlags(ExecInactive(
         [c EXCEPT !.ret = FALSE,
                   !.d.late = @ \/ c.d.notified > 0]))))))))))))
        EXCEPT !.ret = FALSE]

\* ---------------------------------------------------------------- actions

Ctx(i, ub) ==
    [d |-> d[i], t |-> tr[i], q |-> qr[i], cache |-> cache, mailbox |-> mailbox,
     session |-> session, occ |-> occ, ret |-> FALSE, call |-> FALSE, ub |-> ub]

\* The process has ended on a read through a null pointer.
Crashed == \E j \in Inj : d[j].crashed

\* The outcomes of undefined behaviour that a step of injection i may meet.
Undefined(i) ==
    IF d[i].message.valid /\ ~d[i].bidFetcher.on THEN BOOLEAN ELSE {FALSE}

Apply(i, c) ==
    /\ d' = [d EXCEPT ![i] = c.d]
    /\ tr' = [tr EXCEPT ![i] = c.t]
    /\ qr' = [qr EXCEPT ![i] = c.q]
    /\ cache' = c.cache
    /\ mailbox' = c.mailbox
    /\ session' = c.session
    /\ occ' = c.occ

\* The owner of the injection, or anything else, calls Injector::execute().
Execute(i) ==
    /\ ~Crashed
    /\ \E ub \in Undefined(i) : Apply(i, InjectorExecute(Ctx(i, ub)))
    /\ UNCHANGED << resp, db, faults, poolVars, und >>

\* The query at the head of what transaction i has sent.
Sent(i) == tr[i].on /\ tr[i].nsent >= 1

Answer(i, qy, e) ==
    /\ db' = e.db
    /\ tr' = [tr EXCEPT ![i].queue = Tail(@), ![i].nsent = @ - 1]
    /\ resp' = [resp EXCEPT ![i] =
            IF qy.o = "none" /\ ~e.failed THEN @
            ELSE Append(@, [id |-> qy.id, k |-> qy.k, o |-> qy.o,
                            failed |-> e.failed, err |-> e.err, rows |-> e.rows,
                            canFail |-> qy.k = "copy" /\ qy.a.k = "bodypart"])]
    /\ UNCHANGED << d, qr, cache, mailbox, session, occ, poolVars, und >>

\* The database executes the next query of transaction i.
DbProcess(i) ==
    /\ Sent(i)
    /\ LET e == DbEffect(db, i, Head(tr[i].queue))
       IN  ~e.wait /\ Answer(i, Head(tr[i].queue), e)
    /\ UNCHANGED faults

\* The database fails the next query of transaction i for a reason of its
\* own; a commit that fails leaves the transaction rolled back.
DbFault(i) ==
    /\ Sent(i)
    /\ faults < MaxFaults
    /\ db.tx[i].st \in {"none", "active"}
    /\ Head(tr[i].queue).k \notin {"rollback", "rollback_to"}
    /\ LET qy == Head(tr[i].queue)
       IN  Answer(i, qy,
               IF qy.k = "commit"
               THEN [Err("commit failed", db, i) EXCEPT !.db = DbRollback(db, i)]
               ELSE Err("server error", db, i))
    /\ faults' = faults + 1

\* The transactions that transaction i is waiting for.
WaitsFor(i) ==
    IF Sent(i) /\ DbEffect(db, i, Head(tr[i].queue)).wait
    THEN LET qy == Head(tr[i].queue)
         IN  CASE qy.k = "lock" -> {db.lock[qy.a]}
               [] qy.k = "update_mailbox" -> {db.lock[qy.a.m]}
               [] qy.k = "copy" ->
                    {r.by : r \in {x \in db.vocab[qy.a.k] :
                        /\ ~Visible(x, i)
                        /\ \E v \in qy.a.vals :
                             x.key = (IF qy.a.k = "bodypart" THEN v.hash
                                      ELSE KeyOf(qy.a.k, v))}}
               [] OTHER -> {r.by : r \in {x \in db.rows : ~Visible(x, i)}}
    ELSE {}

RECURSIVE WaitClosure(_, _)
WaitClosure(S, n) ==
    IF n = 0 THEN S
    ELSE WaitClosure(S \cup UNION {WaitsFor(j) : j \in S}, n - 1)

\* The database finds transaction i in a cycle of waiting transactions and
\* fails its query.
DbDeadlock(i) ==
    /\ Sent(i)
    /\ i \in WaitClosure(WaitsFor(i), NInj)
    /\ Answer(i, Head(tr[i].queue), Err("deadlock detected", db, i))
    /\ UNCHANGED faults

\* The process reads the next response to a query of injection i: the query
\* and the transaction learn the outcome, and the query's owner is notified.
Deliver(i) ==
    /\ ~Crashed
    /\ resp[i] # << >>
    /\ \E ub \in Undefined(i) :
       LET r  == Head(resp[i])
           c0 == Ctx(i, ub)
           c1 == [c0 EXCEPT
                    !.q[r.id] = [done |-> TRUE, failed |-> r.failed,
                                 err |-> r.err, rows |-> r.rows],
                    !.t.failed = IF r.failed /\ ~r.canFail THEN TRUE
                                 ELSE IF r.k = "rollback_to" /\ ~r.failed THEN FALSE
                                 ELSE @,
                    !.t.err = IF r.failed /\ ~r.canFail /\ @ = "" THEN r.err
                              ELSE IF r.k = "rollback_to" /\ ~r.failed THEN ""
                              ELSE @,
                    !.t.done = @ \/ r.k \in {"commit", "rollback"}]
       IN  Apply(i, OwnerExecute(
                        CASE r.o \in Kinds -> ResolverExecute(c1, r.o)
                          [] r.o = "bidFetcher" -> BidFetcherExecute(c1)
                          [] r.o = "midFetcher" -> MidFetcherExecute(c1)
                          [] r.o = "uidFetcher" -> UidFetcherExecute(c1)
                          [] r.o = "injector" -> Notify(c1)
                          [] OTHER -> c1))
    /\ resp' = [resp EXCEPT ![i] = Tail(@)]
    /\ UNCHANGED << db, faults, poolVars, und >>

Next ==
    \E i \in Inj :
        \/ Execute(i)
        \/ DbProcess(i)
        \/ DbFault(i)
        \/ DbDeadlock(i)
        \/ Deliver(i)

\* ------------------------------------------------------------------- pool
\*
\* Database::submit() and Database::runQueue() work on a record p of the
\* shared queue, the states of the queries, the handles and the two graphed
\* numbers, with the counters of runQueue(): busy, connecting, and ret once it
\* has returned from within its loop.

\* Database::State
HandleStates == {"Connecting", "Idle", "InTransaction", "FailedTransaction", "Broken"}

\* Database::Database(): a handle starts in Connecting; timeout is what
\* setTimeoutAfter() was last given, query the query it is processing.
NewHandle == [st |-> "Connecting", usable |-> TRUE, query |-> 0, timeout |-> 0]

\* List::firstElement(), 0 for an empty list.
firstElement(q) == IF q = << >> THEN 0 ELSE Head(q)

\* Postgres::processQueue(): the handle takes the query at the head of the
\* shared queue, if there is one, and is busy with it.
processQueue(p, it) ==
    IF p.queries = << >> THEN p
    ELSE [p EXCEPT !.queries = Tail(@),
                   !.qstate[Head(p.queries)] = "Executing",
                   !.handles[it].query = Head(p.queries),
                   !.handles[it].usable = FALSE]

\* The test of runQueue() for a handle that is working.
Busy(h) ==
    /\ h.st # "Connecting"
    /\ h.st # "Broken"
    /\ ~h.usable \/ h.st = "InTransaction" \/ h.st = "FailedTransaction"

\* The end of runQueue() when the whole queue has been dispatched: the
\* first usable handle from the iterator on gets a timeout of 5 seconds.
shortenTimeout(p, it) ==
    LET U  == {n \in it..Len(p.handles) : p.handles[n].usable}
        p1 == IF U = {} THEN p
              ELSE [p EXCEPT !.handles[CHOOSE n \in U : \A x \in U : n <= x].timeout = 5]
    IN  [p1 EXCEPT !.stats = [queue |-> 0, busy |-> p.busy], !.ret = TRUE]

\* The loop of runQueue() over the handles, from handle it on.
RECURSIVE runHandles(_, _)
runHandles(p, it) ==
    IF it > Len(p.handles) THEN p
    ELSE LET h  == p.handles[it]
             p1 == IF Busy(h) THEN [p EXCEPT !.busy = @ + 1] ELSE p
         IN  IF h.st = "Idle" /\ h.usable
             THEN LET p2 == processQueue(p1, it)
                  IN  IF p2.queries = << >> /\ ~p2.conf.unix
                      THEN shortenTimeout(p2, it)
                      ELSE runHandles(p2, it + 1)
             ELSE IF h.st = "Connecting"
             THEN runHandles([p1 EXCEPT !.connecting = @ + 1], it + 1)
             ELSE runHandles(p1, it + 1)

\* newHandle(): (void)new Postgres, which joins the pool; Database::Database()
\* records the time in lastCreated.
newHandle(p) == [p EXCEPT !.handles = Append(@, NewHandle), !.justCreated = TRUE]

\* A runQueue() that does not wait for db-handle-interval to pass.
runQueueAtOnce(p0, inShutdown, soon) ==
    LET first == firstElement(p0.queries)
        p     == runHandles([p0 EXCEPT !.busy = 0, !.connecting = 0, !.ret = FALSE], 1)
        p1    == [p EXCEPT !.stats = [queue |-> Len(p.queries), busy |-> p.busy]]
    IN  IF p.ret THEN p
        ELSE IF first # firstElement(p1.queries) THEN p1
        ELSE IF p1.conf.unix /\ ~p1.conf.inRoot THEN p1
        ELSE IF inShutdown THEN p1
        ELSE IF p1.connecting > 0 THEN p1
        ELSE IF Len(p1.handles) < DbMaxHandles THEN newHandle(p1)
        ELSE p1

\* Database::runQueue(); inShutdown is EventLoop::inShutdown(), and soon
\* whether less than db-handle-interval has passed since a handle was
\* created.
runQueue(p0, inShutdown, soon) ==
    LET first == firstElement(p0.queries)
        p     == runHandles([p0 EXCEPT !.busy = 0, !.connecting = 0, !.ret = FALSE], 1)
        p1    == [p EXCEPT !.stats = [queue |-> Len(p.queries), busy |-> p.busy]]
    IN  IF p.ret THEN p
        ELSE IF first # firstElement(p1.queries) THEN p1
        ELSE IF p1.conf.unix /\ ~p1.conf.inRoot THEN p1
        ELSE IF inShutdown THEN p1
        ELSE IF p1.handles # << >> /\ soon THEN p1
        ELSE IF p1.connecting > 0 THEN p1
        ELSE IF Len(p1.handles) < DbMaxHandles THEN newHandle(p1)
        ELSE p1

\* A submit( q ) that puts the query at the head of the queue.
submitAtHead(p, q, inShutdown, soon) ==
    runQueue([p EXCEPT !.queries = << q >> \o @,
                       !.qstate = @ @@ (q :> "Submitted")],
             inShutdown, soon)

\* Database::submit( Query * q )
submit(p, q, inShutdown, soon) ==
    runQueue([p EXCEPT !.queries = Append(@, q),
                       !.qstate = @ @@ (q :> "Submitted")],
             inShutdown, soon)

\* Database::submit( List< Query > * q )
submitList(p, q, inShutdown, soon) ==
    runQueue([p EXCEPT !.queries = @ \o q,
                       !.qstate = @ @@ [x \in Range(q) |-> "Submitted"]],
             inShutdown, soon)

\* The error of a query that was queued when the last handle went.
NoHandles == "No available database handles."

\* The disaster removeHandle() logs.
AllClosed == "All database handles closed; cannot create any new ones."

\* The loop of removeHandle() over the queue: each query gets the error,
\* its owner is notified, and it is taken from the queue.
RECURSIVE failQueries(_)
failQueries(p) ==
    IF p.queries = << >> THEN p
    ELSE failQueries([p EXCEPT !.qstate[Head(p.queries)] = "Failed",
                               !.notices = Append(@, << Head(p.queries), NoHandles >>),
                               !.queries = Tail(@)])

\* A removeHandle( d ) that fails the queued queries although handles remain.
removeHandleFailingAlways(p, h) ==
    failQueries([p EXCEPT !.handles = SubSeq(@, 1, h - 1) \o SubSeq(@, h + 1, Len(@))])

\* Database::removeHandle( d ) for the handle at place h of the pool (the
\* list of handles exists from Database::setup() on).
removeHandle(p, h) ==
    LET p1 == [p EXCEPT !.handles = SubSeq(@, 1, h - 1) \o SubSeq(@, h + 1, Len(@))]
        p2 == failQueries(p1)
    IN  IF p1.handles # << >> THEN p1
        ELSE IF p2.conf.unix /\ ~p2.conf.inRoot
        THEN [p2 EXCEPT !.notices = Append(@, << 0, AllClosed >>)]
        ELSE p2

PoolCtx ==
    [queries |-> queries, qstate |-> qstate, handles |-> handles, stats |-> stats,
     conf |-> conf, justCreated |-> justCreated, notices |-> notices, busy |-> 0, connecting |-> 0,
     ret |-> FALSE]

PoolApply(p) ==
    /\ queries' = p.queries
    /\ qstate' = p.qstate
    /\ handles' = p.handles
    /\ stats' = p.stats
    /\ justCreated' = p.justCreated
    /\ notices' = p.notices
    /\ UNCHANGED << conf, d, tr, qr, resp, cache, mailbox, session, occ, db, faults,
                    und >>

\* The queries that have been given to submit(), numbered in that order.
Submitted == DOMAIN qstate

\* Some part of the process submits a new query.
Submit ==
    /\ Cardinality(Submitted) < MaxQueries
    /\ \E inShutdown \in BOOLEAN :
        PoolApply(submit(PoolCtx, Cardinality(Submitted) + 1, inShutdown, justCreated))

\* Some part of the process submits a list of n new queries.
SubmitList(n) ==
    /\ Cardinality(Submitted) + n <= MaxQueries
    /\ \E inShutdown \in BOOLEAN :
        PoolApply(submitList(PoolCtx,
                             [x \in 1..n |-> Cardinality(Submitted) + x],
                             inShutdown, justCreated))

\* Handle h connects, breaks, begins or ends a transaction, or finishes the
\* query it was processing: it is in state st and usable or not (u) after.
HandleEvent(h, st, u) ==
    /\ st # "Connecting"
    /\ << st, u >> # << handles[h].st, handles[h].usable >>
    /\ handles[h].st = "Broken" => st = "Broken"
    /\ handles[h].st = "Connecting" => st \in {"Idle", "Broken"} /\ u
    /\ handles' = [handles EXCEPT ![h].st = st, ![h].usable = u,
                                  ![h].query = IF u THEN 0 ELSE @]
    /\ qstate' = IF u /\ handles[h].query # 0
                 THEN [qstate EXCEPT ![handles[h].query] = "Completed"]
                 ELSE qstate
    /\ UNCHANGED << queries, stats, conf, justCreated, notices, und, d, tr, qr, resp, cache, mailbox,
                    session, occ, db, faults >>

\* db-handle-interval seconds pass without a new handle.
Tick ==
    /\ justCreated
    /\ justCreated' = FALSE
    /\ UNCHANGED << queries, qstate, handles, stats, conf, notices, und, d, tr, qr,
                    resp, cache, mailbox, session, occ, db, faults >>

\* The handle at place h closes, by a timeout, an error or a shutdown, and
\* leaves the pool.
RemoveHandle(h) == PoolApply(removeHandle(PoolCtx, h))

NextPool ==
    \/ Submit
    \/ Tick
    \/ \E n \in 0..2 : SubmitList(n)
    \/ \E h \in DOMAIN handles : \E st \in HandleStates : \E u \in BOOLEAN :
        HandleEvent(h, st, u)

\* ---------------------------------------------------------- aox undelete
\*
\* und is the UndeleteData of the command with its Transaction: d->state,
\* d->m, the UIDs its selector matches, the results of d->find and
\* d->uidnext, the queries enqueued and not yet answered (the first nsent of
\* them are with the database), failed and done of the transaction, whether
\* a call of execute() is due, and the message the process has ended with.

NewUndelete(m, uids, gap) ==
    [state |-> 2, m |-> m, uids |-> uids, gap |-> gap,
     find |-> [done |-> FALSE, rows |-> {}],
     uidnext |-> [done |-> FALSE, rows |-> {}],
     queue |-> << >>, nsent |-> 0, failed |-> FALSE, done |-> FALSE,
     call |-> TRUE, ended |-> ""]

\* No undelete is run.
NoUndelete == [NewUndelete(1, {}, "inorder") EXCEPT !.call = FALSE, !.ended = "no command"]

\* Transaction::enqueue( q ) for the transaction of undelete.
UEnqueue(u, k, a) == [u EXCEPT !.queue = Append(@, [k |-> k, a |-> a])]

\* Transaction::execute()
UExecute(u) == [u EXCEPT !.nsent = Len(u.queue)]

\* AoxCommand::error(): the message is printed and the process ends.
UError(u, message) == [u EXCEPT !.ended = message, !.call = FALSE]

\* Undelete::execute(), state 2: the find and the lock of the mailbox row.
UndeleteFind(u) ==
    IF u.state # 2 THEN u
    ELSE [UExecute(UEnqueue(UEnqueue(u, "find_deleted", [m |-> u.m, uids |-> u.uids]),
                            "lock", u.m))
            EXCEPT !.state = 3]

\* An undelete that gives every row the modseq after the one it read.
UndeleteMoveLate(u) ==
    IF u.state # 3 \/ u.ended # "" \/ ~u.uidnext.done THEN u
    ELSE IF u.uidnext.rows = {}
    THEN UError(u, "Internal error - could not read mailbox UID")
    ELSE LET r  == CHOOSE x \in u.uidnext.rows : TRUE
             ss == {x.uid : x \in u.find.rows}
             u1 == UEnqueue(u, "create_sequence", r.uidnext)
             u2 == UEnqueue(u1, "undelete_insert",
                       [m |-> u.m, modseq |-> r.nextmodseq + 1, uids |-> ss, order |-> << >>])
             u3 == UEnqueue(u2, "undelete_delete", [m |-> u.m, uids |-> ss, gap |-> u.gap])
             u4 == UEnqueue(u3, "undelete_update", [m |-> u.m, nextmodseq |-> r.nextmodseq + 1])
             u5 == UEnqueue(UEnqueue(u4, "drop_sequence", 0), "refresh", 0)
         IN  IF ss = {}
             THEN UError(u, "No such deleted message (search returned 0 results)")
             ELSE [UExecute(UEnqueue(u5, "commit", 0)) EXCEPT !.state = 4]

\* An undelete that moves the rows and leaves the mailbox as it was.
UndeleteMoveOnly(u) ==
    IF u.state # 3 \/ u.ended # "" \/ ~u.uidnext.done THEN u
    ELSE IF u.uidnext.rows = {}
    THEN UError(u, "Internal error - could not read mailbox UID")
    ELSE LET r  == CHOOSE x \in u.uidnext.rows : TRUE
             ss == {x.uid : x \in u.find.rows}
             u1 == UEnqueue(u, "create_sequence", r.uidnext)
             u2 == UEnqueue(u1, "undelete_insert",
                       [m |-> u.m, modseq |-> r.nextmodseq, uids |-> ss, order |-> << >>])
             u3 == UEnqueue(u2, "undelete_delete", [m |-> u.m, uids |-> ss, gap |-> u.gap])
             u5 == UEnqueue(UEnqueue(u3, "drop_sequence", 0), "refresh", 0)
         IN  IF ss = {}
             THEN UError(u, "No such deleted message (search returned 0 results)")
             ELSE [UExecute(UEnqueue(u5, "commit", 0)) EXCEPT !.state = 4]

\* Undelete::execute(), state 3: with the uidnext and nextmodseq of the
\* mailbox and the UIDs found, the rows are moved and the mailbox advanced.
UndeleteMove(u) ==
    IF u.state # 3 \/ u.ended # "" \/ ~u.uidnext.done THEN u
    ELSE IF u.uidnext.rows = {}
    THEN UError(u, "Internal error - could not read mailbox UID")
    ELSE LET r  == CHOOSE x \in u.uidnext.rows : TRUE
             ss == {x.uid : x \in u.find.rows}
             u1 == UEnqueue(u, "create_sequence", r.uidnext)
             u2 == UEnqueue(u1, "undelete_insert",
                       [m |-> u.m, modseq |-> r.nextmodseq, uids |-> ss, order |-> << >>])
             u3 == UEnqueue(u2, "undelete_delete", [m |-> u.m, uids |-> ss, gap |-> u.gap])
             u4 == UEnqueue(u3, "undelete_update", [m |-> u.m, nextmodseq |-> r.nextmodseq + 1])
             u5 == UEnqueue(UEnqueue(u4, "drop_sequence", 0), "refresh", 0)
         IN  IF ss = {}
             THEN UError(u, "No such deleted message (search returned 0 results)")
             ELSE [UExecute(UEnqueue(u5, "commit", 0)) EXCEPT !.state = 4]

\* Undelete::execute(), state 4: the end of the transaction.
UndeleteEnd(u) ==
    IF u.state # 4 \/ u.ended # "" \/ ~u.done THEN u
    ELSE IF u.failed THEN UError(u, "Undelete failed.")
    ELSE [u EXCEPT !.ended = "finished"]

\* Undelete::execute(), from state 2 on.
UndeleteExecute(u) == UndeleteEnd(UndeleteMove(UndeleteFind([u EXCEPT !.call = FALSE])))

injVars == << d, tr, qr, resp, cache, mailbox, session, occ, faults >>

\* The event loop of aox undelete calls execute(); a process that ends with
\* its transaction open leaves it to be rolled back.
Undelete ==
    /\ und.call /\ und.ended = ""
    /\ und' = UndeleteExecute(und)
    /\ db' = IF und'.ended \notin {"", "finished"} /\ db.tx[Und].st \in {"active", "aborted"}
             THEN DbRollback(db, Und) ELSE db
    /\ UNCHANGED << injVars, poolVars >>

\* The database executes the next query of the transaction of undelete, and
\* the process learns the outcome: the owner of d->uidnext and of the
\* transaction is the command.
UndeleteDb ==
    /\ und.nsent >= 1 /\ und.ended = ""
    /\ LET qy == Head(und.queue)
       IN  \E order \in IF qy.k = "undelete_insert"
                         THEN Orders(DeletedRows(db, Und, qy.a.m, qy.a.uids))
                         ELSE {<< >>} :
            LET e == DbEffect(db, Und,
                              IF qy.k = "undelete_insert"
                              THEN [qy EXCEPT !.a.order = order] ELSE qy)
            IN  /\ ~e.wait
                /\ db' = e.db
                /\ und' = [und EXCEPT
                        !.queue = Tail(@),
                        !.nsent = @ - 1,
                        !.failed = @ \/ e.failed,
                        !.find = IF qy.k = "find_deleted"
                                 THEN [done |-> TRUE, rows |-> e.rows] ELSE @,
                        !.uidnext = IF qy.k = "lock"
                                    THEN [done |-> TRUE, rows |-> e.rows] ELSE @,
                        !.done = @ \/ qy.k = "commit",
                        !.call = @ \/ qy.k \in {"lock", "commit"}]
    /\ UNCHANGED << injVars, poolVars >>

\* Undelete beside one injection.
NextUndelete ==
    \/ Undelete
    \/ UndeleteDb
    \/ Execute(1)
    \/ DbProcess(1)
    \/ Deliver(1)

\* The pool with handles that close.
NextHandles ==
    \/ NextPool
    \/ \E h \in DOMAIN handles : RemoveHandle(h)

\* ------------------------------------------------------------------- init

TextPart(n) == [type |-> "text", subtype |-> "plain", text |-> n, data |-> 0]
DataPart(n) == [type |-> "image", subtype |-> "png", text |-> 0, data |-> n]

Message(flags, annotations, fields, parts, addresses) ==
    [valid |-> TRUE, flags |-> flags, annotations |-> annotations,
     fields |-> fields, parts |-> parts, addresses |-> addresses, date |-> TRUE]

\* A message that Message::valid() rejects.
Invalid ==
    [valid |-> FALSE, flags |-> << >>, annotations |-> << >>, fields |-> << >>,
     parts |-> << >>, addresses |-> << >>, date |-> FALSE]

\* A message of one text part, without flags, annotations or addresses.
Plain == Message(<< >>, << >>, << >>, << TextPart(1) >>, << >>)

NewInjector(message, targets) ==
    [state |-> "Inactive", failed |-> FALSE, owner |-> TRUE, message |-> message,
     mailboxes |-> [n \in 1..Len(targets) |->
                      [mailbox |-> targets[n], uid |-> 0, ms |-> 0, recentIn |-> 0,
                       level |-> "None"]],
     bodyparts |-> [n \in 1..Len(message.parts) |->
                      [bid |-> 0, insert |-> 0, select |-> 0,
                       row |-> [hash |-> 0, text |-> 0, data |-> 0]]],
     midFetcher |-> [on |-> FALSE, insert |-> 0, select |-> 0, failed |-> FALSE,
                     finished |-> FALSE, id |-> 0],
     uidFetcher |-> [on |-> FALSE, li |-> 1, queries |-> << >>, failed |-> FALSE],
     bidFetcher |-> [on |-> FALSE, li |-> 1, state |-> 0, savepoint |-> 0,
                     done |-> FALSE, failed |-> FALSE, error |-> ""],
     res |-> [k \in Kinds |-> NoResolver],
     remoteRecipients |-> << >>, recipientsAt |-> << >>,
     sender |-> << >>, senderAt |-> 0,
     messageId |-> 0,
     notified |-> 0, commits |-> 0, rollbacks |-> 0, announced |-> 0,
     late |-> FALSE, crashed |-> FALSE, reason |-> "",
     moves |-> {}]

\* setDeliveryAddresses( addresses ), which ignores an empty list, and
\* setSender( sender ) on a new Injector.
WithDelivery(injector, sender, addresses) ==
    [injector EXCEPT !.remoteRecipients = addresses, !.sender = << sender >>]

InitialMailboxes ==
    [m \in Mbx |-> IF m = 1
                   THEN [uidnext |-> 1, nextmodseq |-> 1, first_recent |-> 1]
                   ELSE [uidnext |-> 3, nextmodseq |-> 5, first_recent |-> 2]]

InitialSessions ==
    [s \in 1..2 |-> [mailbox |-> 1, unannounced |-> {}, recent |-> {}]]

InitOn(inputs, sessions) ==
    /\ d \in [Inj -> inputs]
    /\ tr = [i \in Inj |-> [NewTransaction EXCEPT !.on = FALSE]]
    /\ qr = [i \in Inj |-> << >>]
    /\ resp = [i \in Inj |-> << >>]
    /\ cache = [k \in CacheKinds |-> {}]
    /\ mailbox = [m \in Mbx |-> [uidnext |-> InitialMailboxes[m].uidnext,
                                 nextmodseq |-> InitialMailboxes[m].nextmodseq]]
    /\ session \in sessions
    /\ occ = << >>
    /\ db = [mb |-> InitialMailboxes,
             lock |-> [m \in Mbx |-> 0],
             vocab |-> [k \in Tables |-> {}],
             rows |-> {},
             seq |-> [k \in Tables \cup {"messages", "deliveries"} |-> 0],
             tx |-> [i \in Inj \cup {Und} |->
                        [st |-> "none", sp |-> {}, undo |-> {}, currval |-> 0,
                         delivery |-> 0, s |-> 0, gone |-> {}]]]
    /\ faults = 0
    /\ queries = << >>
    /\ qstate = << >>
    /\ handles = << NewHandle >>
    /\ stats = [queue |-> 0, busy |-> 0]
    /\ conf = [unix |-> FALSE, inRoot |-> TRUE]
    /\ justCreated = TRUE
    /\ notices = << >>
    /\ und = NoUndelete

InitWith(inputs) == InitOn(inputs, {InitialSessions})

\* A message of one text part with a flag to set.
Flagged == Message(<< "New" >>, << >>, << >>, << TextPart(1) >>, << >>)

\* Injections of plain, flagged and invalid messages into one or both
\* mailboxes.
InitUid ==
    InitWith({NewInjector(Plain, << 1 >>), NewInjector(Plain, << 1, 2 >>),
              NewInjector(Flagged, << 1 >>), NewInjector(Invalid, << 1 >>)})

NextUid ==
    \E i \in Inj :
        \/ Execute(i)
        \/ DbProcess(i)
        \/ DbFault(i)
        \/ Deliver(i)

SpecUid == InitUid /\ [][NextUid]_vars

\* Two sessions, each with mailbox 1, mailbox 2 or a mailbox that no
\* injection delivers to (0) selected.
SessionPlacements ==
    {[s \in 1..2 |-> [mailbox |-> p[s], unannounced |-> {}, recent |-> {}]] :
        p \in [1..2 -> Mbx \cup {0}]}

\* Injections of plain messages into mailbox 1, where uidnext is
\* first_recent, into mailbox 2, where it is not, or into both, and of
\* invalid messages, which touch no mailbox, with sessions on either mailbox,
\* on both or on none.
InitRecent ==
    InitOn({NewInjector(Plain, << 1 >>), NewInjector(Plain, << 2 >>),
            NewInjector(Plain, << 1, 2 >>), NewInjector(Invalid, << 1 >>)},
           SessionPlacements)

NextRecent ==
    \E i \in Inj :
        \/ Execute(i)
        \/ DbProcess(i)
        \/ Deliver(i)

SpecRecent == InitRecent /\ [][NextRecent]_vars

\* The pool after Database::setup(): one or two handles, connecting, an
\* empty queue, and a server on TCP or on a Unix socket inside or outside
\* the root directory; no injection runs.
InitPool ==
    /\ d = [i \in Inj |-> NewInjector(Plain, << 1 >>)]
    /\ tr = [i \in Inj |-> [NewTransaction EXCEPT !.on = FALSE]]
    /\ qr = [i \in Inj |-> << >>]
    /\ resp = [i \in Inj |-> << >>]
    /\ cache = [k \in CacheKinds |-> {}]
    /\ mailbox = [m \in Mbx |-> [uidnext |-> InitialMailboxes[m].uidnext,
                                 nextmodseq |-> InitialMailboxes[m].nextmodseq]]
    /\ session = InitialSessions
    /\ occ = << >>
    /\ db = [mb |-> InitialMailboxes,
             lock |-> [m \in Mbx |-> 0],
             vocab |-> [k \in Tables |-> {}],
             rows |-> {},
             seq |-> [k \in Tables \cup {"messages", "deliveries"} |-> 0],
             tx |-> [i \in Inj \cup {Und} |->
                        [st |-> "none", sp |-> {}, undo |-> {}, currval |-> 0,
                         delivery |-> 0, s |-> 0, gone |-> {}]]]
    /\ faults = 0
    /\ queries = << >>
    /\ qstate = << >>
    /\ handles \in {[n \in 1..k |-> NewHandle] : k \in 1..DbMaxHandles}
    /\ stats = [queue |-> 0, busy |-> 0]
    /\ conf \in [unix : BOOLEAN, inRoot : BOOLEAN]
    /\ justCreated = TRUE
    /\ notices = << >>
    /\ und = NoUndelete

SpecPool == InitPool /\ [][NextPool]_vars

SpecHandles == InitPool /\ [][NextHandles]_vars

\* A message of two attachments.
TwoParts(a, b) == Message(<< >>, << >>, << >>, << DataPart(a), DataPart(b) >>, << >>)

\* Two injections into one mailbox of messages with the same two
\* attachments, in the same order or not.
InitBody ==
    InitWith({NewInjector(TwoParts(11, 12), << 1 >>),
              NewInjector(TwoParts(12, 11), << 1 >>)})

NextBody ==
    \E i \in Inj :
        \/ Execute(i)
        \/ DbProcess(i)
        \/ DbDeadlock(i)
        \/ Deliver(i)

SpecBody == InitBody /\ [][NextBody]_vars

\* The address user@domain.
Addr(domain) == [name |-> "", localpart |-> "user", domain |-> domain]

\* Messages that need a name or an address that the database does not have:
\* a flag in two spellings, an annotation name, a header field name, an
\* address with its domain in two spellings.
Named(flag, n) == Message(<< flag >>, << >>, << >>, << TextPart(n) >>, << >>)
Annotated == Message(<< >>, << "/comment" >>, << >>, << TextPart(1) >>, << >>)
WithField == Message(<< >>, << >>, << "X-Loop" >>, << TextPart(1) >>, << >>)
Addressed(domain, n) == Message(<< >>, << >>, << >>, << TextPart(n) >>, << Addr(domain) >>)

InitVocab ==
    InitWith({NewInjector(Named("New", 1), << 1 >>),
              NewInjector(Named("new", 2), << 1 >>),
              NewInjector(Annotated, << 1 >>), NewInjector(WithField, << 1 >>),
              NewInjector(Addressed("EX.ORG", 1), << 1 >>),
              NewInjector(Addressed("ex.org", 2), << 1 >>)})

NextVocab ==
    \E i \in Inj :
        \/ Execute(i)
        \/ DbProcess(i)
        \/ Deliver(i)

SpecVocab == InitVocab /\ [][NextVocab]_vars


\* The content types of the store-decision: text/html, another text,
\* multipart/signed, another multipart, message/rfc822, another message,
\* another type, and none.
ContentTypes ==
    {<< "text", "html" >>, << "text", "plain" >>, << "multipart", "signed" >>,
     << "multipart", "mixed" >>, << "message", "rfc822" >>,
     << "message", "delivery-status" >>, << "image", "png" >>, << "", "" >>}

\* A message of one part of content type ct, which has the text 2 (in HTML,
\* 1 without its markup) and the bytes 3.
OfType(ct) ==
    Message(<< >>, << >>, << >>,
            << [type |-> ct[1], subtype |-> ct[2], text |-> 2, data |-> 3] >>, << >>)

\* Injections into mailbox 1 of messages of one part of each content type.
InitStore == InitWith({NewInjector(OfType(ct), << 1 >>) : ct \in ContentTypes})

NextStore ==
    \E i \in Inj :
        \/ Execute(i)
        \/ DbProcess(i)
        \/ Deliver(i)

SpecStore == InitStore /\ [][NextStore]_vars

\* A part that is a container: nothing of it is stored.
Container == [type |-> "multipart", subtype |-> "mixed", text |-> 0, data |-> 0]

\* Messages of attachments inside and between containers, the second
\* attachment the same in both.
Nested(a, b) ==
    Message(<< >>, << >>, << >>,
            << Container, DataPart(a), Container, DataPart(b) >>, << >>)

InitParts ==
    InitWith({NewInjector(Nested(11, 12), << 1 >>),
              NewInjector(Nested(13, 12), << 1 >>)})

NextParts ==
    \E i \in Inj :
        \/ Execute(i)
        \/ DbProcess(i)
        \/ DbFault(i)
        \/ Deliver(i)

SpecParts == InitParts /\ [][NextParts]_vars

\* The address localpart@domain without a display-name.
Mail(localpart, domain) == [name |-> "", localpart |-> localpart, domain |-> domain]

\* A message with the header addresses as and one text part n.
From(as, n) == Message(<< >>, << >>, << >>, << TextPart(n) >>, as)

\* Injections that also spool the message: one whose first recipient is a
\* header address with the domain in another spelling, with more addresses
\* than one select asks for; one whose recipient and sender are the header
\* address; and one of another message without header addresses, with other
\* addresses and into another mailbox; and an injection that spools nothing.
InitSpool ==
    InitWith({
        WithDelivery(NewInjector(From(<< Mail("user", "ex.org") >>, 1), << 1 >>),
                     Mail("sender", "ex.org"),
                     << Mail("user", "EX.ORG"), Mail("other", "ex.org") >>),
        WithDelivery(NewInjector(From(<< Mail("user", "ex.org") >>, 2), << 1 >>),
                     Mail("user", "ex.org"), << Mail("user", "ex.org") >>),
        WithDelivery(NewInjector(From(<< >>, 3), << 2 >>),
                     Mail("owner", "ex.net"), << Mail("list", "ex.net") >>),
        NewInjector(Plain, << 1 >>)})

NextSpool ==
    \E i \in Inj :
        \/ Execute(i)
        \/ DbProcess(i)
        \/ Deliver(i)

SpecSpool == InitSpool /\ [][NextSpool]_vars

\* A row of deleted_messages: the message msg had the UID uid in mailbox m.
DeletedMessage(msg, m, uid) ==
    [t |-> "deleted_messages", by |-> 0, c |-> TRUE, msg |-> msg, m |-> m,
     uid |-> uid, ms |-> 0, ref |-> 0]

\* What Query does with a value bound at a position that leaves a gap.
Gaps == {"inorder", "error"}

\* The messages with the UIDs 1 and 2 of mailbox 2 have been deleted; aox
\* undelete is run for the mailbox with a selector that matches one of them
\* or both, while a message is injected into that mailbox or into the other.
InitUndelete ==
    /\ d \in [Inj -> {NewInjector(Plain, << 1 >>), NewInjector(Plain, << 2 >>)}]
    /\ tr = [i \in Inj |-> [NewTransaction EXCEPT !.on = FALSE]]
    /\ qr = [i \in Inj |-> << >>]
    /\ resp = [i \in Inj |-> << >>]
    /\ cache = [k \in CacheKinds |-> {}]
    /\ mailbox = [m \in Mbx |-> [uidnext |-> InitialMailboxes[m].uidnext,
                                 nextmodseq |-> InitialMailboxes[m].nextmodseq]]
    /\ session = InitialSessions
    /\ occ = << >>
    /\ db = [mb |-> InitialMailboxes,
             lock |-> [m \in Mbx |-> 0],
             vocab |-> [k \in Tables |-> {}],
             rows |-> {DeletedMessage(11, 2, 1), DeletedMessage(12, 2, 2)},
             seq |-> [k \in Tables \cup {"messages", "deliveries"} |-> 0],
             tx |-> [i \in Inj \cup {Und} |->
                        [st |-> "none", sp |-> {}, undo |-> {}, currval |-> 0,
                         delivery |-> 0, s |-> 0, gone |-> {}]]]
    /\ faults = 0
    /\ queries = << >>
    /\ qstate = << >>
    /\ handles = << NewHandle >>
    /\ stats = [queue |-> 0, busy |-> 0]
    /\ conf = [unix |-> FALSE, inRoot |-> TRUE]
    /\ justCreated = TRUE
    /\ notices = << >>
    /\ und \in {NewUndelete(2, uids, gap) : uids \in {{1}, {2}, {1, 2}}, gap \in Gaps}

SpecUndelete == InitUndelete /\ [][NextUndelete]_vars

\* The values of uidnext about the UIDs of the notes, and an ordinary one.
LastUids == {3, UidError, UidError + 1, UidDisaster, UidDisaster + 1,
             UidLast - 1, UidLast}

\* Mailbox 1, which two sessions have open, has few UIDs left or none.
InitLast ==
    /\ d \in [Inj -> {NewInjector(Plain, << 1 >>), NewInjector(Plain, << 2, 1 >>)}]
    /\ tr = [i \in Inj |-> [NewTransaction EXCEPT !.on = FALSE]]
    /\ qr = [i \in Inj |-> << >>]
    /\ resp = [i \in Inj |-> << >>]
    /\ cache = [k \in CacheKinds |-> {}]
    /\ \E u \in LastUids :
        /\ db = [mb |-> [InitialMailboxes EXCEPT
                            ![1] = [uidnext |-> u, nextmodseq |-> 7, first_recent |-> u]],
                 lock |-> [m \in Mbx |-> 0],
                 vocab |-> [k \in Tables |-> {}],
                 rows |-> {},
                 seq |-> [k \in Tables \cup {"messages", "deliveries"} |-> 0],
                 tx |-> [i \in Inj \cup {Und} |->
                            [st |-> "none", sp |-> {}, undo |-> {}, currval |-> 0,
                             delivery |-> 0, s |-> 0, gone |-> {}]]]
        /\ mailbox = [m \in Mbx |-> [uidnext |-> db.mb[m].uidnext,
                                     nextmodseq |-> db.mb[m].nextmodseq]]
    /\ session = InitialSessions
    /\ occ = << >>
    /\ faults = 0
    /\ queries = << >>
    /\ qstate = << >>
    /\ handles = << NewHandle >>
    /\ stats = [queue |-> 0, busy |-> 0]
    /\ conf = [unix |-> FALSE, inRoot |-> TRUE]
    /\ justCreated = TRUE
    /\ notices = << >>
    /\ und = NoUndelete

\* Mailbox 1 is known to the process, but its row is gone from mailboxes.
InitGone ==
    /\ d \in [Inj -> {NewInjector(Plain, << 1, 2 >>), NewInjector(Plain, << 1 >>),
                      NewInjector(Plain, << 2 >>)}]
    /\ tr = [i \in Inj |-> [NewTransaction EXCEPT !.on = FALSE]]
    /\ qr = [i \in Inj |-> << >>]
    /\ resp = [i \in Inj |-> << >>]
    /\ cache = [k \in CacheKinds |-> {}]
    /\ mailbox = [m \in Mbx |-> [uidnext |-> InitialMailboxes[m].uidnext,
                                 nextmodseq |-> InitialMailboxes[m].nextmodseq]]
    /\ session = InitialSessions
    /\ occ = << >>
    /\ db = [mb |-> [InitialMailboxes EXCEPT
                        ![1] = [uidnext |-> 0, nextmodseq |-> 0, first_recent |-> 0]],
             lock |-> [m \in Mbx |-> 0],
             vocab |-> [k \in Tables |-> {}],
             rows |-> {},
             seq |-> [k \in Tables \cup {"messages", "deliveries"} |-> 0],
             tx |-> [i \in Inj \cup {Und} |->
                        [st |-> "none", sp |-> {}, undo |-> {}, currval |-> 0,
                         delivery |-> 0, s |-> 0, gone |-> {}]]]
    /\ faults = 0
    /\ queries = << >>
    /\ qstate = << >>
    /\ handles = << NewHandle >>
    /\ stats = [queue |-> 0, busy |-> 0]
    /\ conf = [unix |-> FALSE, inRoot |-> TRUE]
    /\ justCreated = TRUE
    /\ notices = << >>
    /\ und = NoUndelete

NextGone ==
    \E i \in Inj :
        \/ Execute(i)
        \/ DbProcess(i)
        \/ Deliver(i)

SpecGone == InitGone /\ [][NextGone]_vars

NextLast ==
    \E i \in Inj :
        \/ Execute(i)
        \/ DbProcess(i)
        \/ Deliver(i)

SpecLast == InitLast /\ [][NextLast]_vars

\* ------------------------------------------------------------ properties

\* The rows of mailbox_messages for mailbox m, and those of them that are
\* committed.
MailboxMessages(m) == {r \in db.rows : r.t = "mailbox_messages" /\ r.m = m}

CommittedMessages(m) == {r \in MailboxMessages(m) : r.c}

\* The targets of injection i that are mailbox m.
TargetsAt(i, m) == {u \in Range(d[i].mailboxes) : u.mailbox = m}

\* This step commits the transaction of injection i.
Commits(i) == db.tx[i].st # "committed" /\ db'.tx[i].st = "committed"

\* This step rolls the transaction of injection i back.
RollsBack(i) == db.tx[i].st # "rolledback" /\ db'.tx[i].st = "rolledback"

UidsGapFree ==
    \A m \in Mbx :
        LET U     == {r.uid : r \in CommittedMessages(m)}
            first == InitialMailboxes[m].uidnext
        IN  /\ U = first..(first + Cardinality(U) - 1)
            /\ Cardinality(CommittedMessages(m)) = Cardinality(U)
            /\ db.lock[m] = 0 => db.mb[m].uidnext = first + Cardinality(U)

UidStep ==
    /\ \A m \in Mbx :
        db'.mb[m].uidnext # db.mb[m].uidnext =>
            \E i \in Inj : \E u \in TargetsAt(i, m) :
                /\ db'.lock[m] = i \/ RollsBack(i)
                /\ u.uid = IF RollsBack(i) THEN db'.mb[m].uidnext
                           ELSE db.mb[m].uidnext
                /\ RollsBack(i) \/ db'.mb[m].uidnext = u.uid + 1
    /\ \A i \in Inj :
        Commits(i) =>
            \A r \in db.rows :
                (r.by = i /\ r.t = "mailbox_messages") =>
                    /\ \E u \in TargetsAt(i, r.m) : u.uid = r.uid
                    /\ db.mb[r.m].uidnext = r.uid + 1
                    /\ \A x \in CommittedMessages(r.m) : x.uid < r.uid

\* C1: the UID an injection records for a mailbox is the uidnext of the
\* mailbox's row just before the injection's increment, which leaves
\* uidnext at that UID + 1; a rollback puts uidnext back; and the committed
\* UIDs of a mailbox are, in the order of the commits, the numbers from the
\* first uidnext on, none twice and none left out.
C1_UidAllocation == UidsGapFree /\ [][UidStep /\ UidsGapFree']_vars

\* Two injections have committed a message each into one mailbox.
C1_Witness ==
    \E m \in Mbx :
        /\ Cardinality(CommittedMessages(m)) = 2
        /\ \A i \in Inj : db.tx[i].st = "committed"

ModseqsIncrease ==
    \A m \in Mbx :
        /\ \A r \in MailboxMessages(m) : r.ms < db.mb[m].nextmodseq
        /\ \A r, x \in CommittedMessages(m) :
            /\ r.uid < x.uid => r.ms < x.ms
            /\ r.by # x.by => r.ms # x.ms

ModseqStep ==
    /\ \A m \in Mbx :
        db'.mb[m].nextmodseq # db.mb[m].nextmodseq =>
            \E i \in Inj : \E u \in TargetsAt(i, m) :
                /\ db'.lock[m] = i \/ RollsBack(i)
                /\ u.ms = IF RollsBack(i) THEN db'.mb[m].nextmodseq
                          ELSE db.mb[m].nextmodseq
                /\ RollsBack(i) \/ db'.mb[m].nextmodseq = db.mb[m].nextmodseq + 1
    /\ \A i \in Inj :
        Commits(i) =>
            \A r \in db.rows :
                (r.by = i /\ r.t = "mailbox_messages") =>
                    /\ \E u \in TargetsAt(i, r.m) : u.ms = r.ms
                    /\ \A x \in CommittedMessages(r.m) : x.ms < r.ms

\* C2: the modseq an injection records for a mailbox is the nextmodseq it
\* read under the row lock, its increment leaves nextmodseq one higher, so
\* that every modseq in mailbox_messages is below the mailbox's nextmodseq,
\* and the modseqs committed into one mailbox increase from commit to commit.
C2_ModseqAllocation == ModseqsIncrease /\ [][ModseqStep /\ ModseqsIncrease']_vars

\* Two injections have committed into the mailbox whose nextmodseq was 5,
\* with the modseqs 5 and 6.
C2_Witness ==
    \E r, x \in CommittedMessages(2) : r.ms = 5 /\ x.ms = 6 /\ r.by # x.by

\* What injection i has changed outside the database: nothing.
Unannounced(i) == d[i].announced = 0

\* Injector::failed(), also before there is a transaction.
Failed(i) == d[i].failed \/ tr[i].failed

OutsideUntouched ==
    /\ \A i \in Inj : (Failed(i) \/ db.tx[i].st # "committed") => Unannounced(i)
    /\ (\A i \in Inj : Unannounced(i)) =>
        /\ session = InitialSessions
        /\ occ = << >>
        /\ \A m \in Mbx : /\ mailbox[m].uidnext = InitialMailboxes[m].uidnext
                          /\ mailbox[m].nextmodseq = InitialMailboxes[m].nextmodseq

AnnounceStep ==
    (session' # session \/ mailbox' # mailbox \/ occ' # occ) =>
        \E i \in Inj :
            /\ d'[i].announced = d[i].announced + 1
            /\ \A j \in Inj \ {i} : d'[j] = d[j]
            /\ tr'[i].done /\ ~tr'[i].failed /\ ~d'[i].failed
            /\ db.tx[i].st = "committed"
            /\ d[i].state = "AwaitingCompletion" /\ d'[i].state = "Done"

\* C3: the sessions' unannounced and recent sets, the Mailbox objects'
\* uidnext and nextmodseq and the lines sent to the peers change only in a
\* step in which an injection runs announce(), and it runs announce() only
\* when its transaction is done and committed and neither has failed; an
\* injection that has failed or has not committed has changed none of them.
C3_SideEffectsAfterCommit == OutsideUntouched /\ [][AnnounceStep /\ OutsideUntouched']_vars

\* One injection has announced its message to a session, and the other has
\* failed after it read its UID.
C3_Witness ==
    \E i, j \in Inj :
        /\ d[i].announced = 1 /\ session[1].unannounced # {}
        /\ d[j].failed /\ tr[j].done /\ d[j].mailboxes[1].uid # 0

\* C4: once the transaction of an injection that failed has resolved, the
\* database holds no row that the injection wrote and none of its locks, and
\* the uidnext and nextmodseq of a mailbox that no transaction is changing
\* are what they were at the start plus one for each injection into it that
\* committed and did not fail.
C4_NoPartialVisibility ==
    /\ \A i \in Inj :
        (Failed(i) /\ (tr[i].on => tr[i].done)) =>
            /\ db.tx[i].st \in {"none", "rolledback"}
            /\ \A r \in db.rows : r.by # i
            /\ \A k \in Tables : \A r \in db.vocab[k] : r.by # i
            /\ \A m \in Mbx : db.lock[m] # i
    /\ \A m \in Mbx :
        db.lock[m] = 0 =>
            LET n == Cardinality({i \in Inj : /\ TargetsAt(i, m) # {}
                                              /\ db.tx[i].st = "committed"
                                              /\ ~Failed(i)})
            IN  /\ db.mb[m].uidnext = InitialMailboxes[m].uidnext + n
                /\ db.mb[m].nextmodseq = InitialMailboxes[m].nextmodseq + n

\* An injection has failed at its commit, after all its rows were written
\* and its increments made, and its transaction has resolved.
C4_Witness ==
    \E i \in Inj :
        /\ d[i].failed /\ tr[i].done /\ d[i].state = "Done"
        /\ tr[i].err = "commit failed"
        /\ d[i].mailboxes[1].uid # 0

\* C5: an injector calls its owner's execute() at most once, whatever
\* calls of its own execute() follow.
C5_NotifiesOwnerOnce == \A i \in Inj : d[i].notified <= 1

\* An injector whose transaction failed has notified its owner, and its
\* execute() has been called again after that.
C5_Witness ==
    \E i \in Inj :
        d[i].notified = 1 /\ d[i].late /\ d[i].state = "Done" /\ tr[i].failed

\* When DbProcess(i) and Deliver(i) can happen; each of them changes vars.
DbProcessEnabled(i) == Sent(i) /\ ~DbEffect(db, i, Head(tr[i].queue)).wait

DeliverEnabled(i) == ~Crashed /\ resp[i] # << >>

\* The database answers the query it has been sent, unless the query waits
\* for another transaction, and the process reads the answers it is sent:
\* weak fairness of DbProcess(i) and of Deliver(i), written with the
\* conditions under which they are enabled.
FairUid ==
    /\ SpecUid
    /\ \A i \in Inj :
        /\ ([]<>~DbProcessEnabled(i)) \/ ([]<><<DbProcess(i)>>_vars)
        /\ ([]<>~DeliverEnabled(i)) \/ ([]<><<Deliver(i)>>_vars)

\* The same for the injections that need names and addresses.
FairVocab ==
    /\ SpecVocab
    /\ \A i \in Inj :
        /\ ([]<>~DbProcessEnabled(i)) \/ ([]<><<DbProcess(i)>>_vars)
        /\ ([]<>~DeliverEnabled(i)) \/ ([]<><<Deliver(i)>>_vars)

\* Injector::execute() has been called for injection i.
Called(i) == d[i].state # "Inactive" \/ d[i].failed

\* Injection i is over, and its owner has been told so once.
Finished(i) ==
    /\ d[i].state = "Done" \/ (d[i].failed /\ ~d[i].message.valid)
    /\ d[i].notified = 1
    /\ ~d[i].owner

\* C6: an injection whose execute() has been called and that has not yet
\* come to its end with its owner notified is in a process that still runs,
\* so that it can come to its end when the database answers and the process
\* reads the answers: after a resolver failure as after any other ending.
C6_EveryInjectionEnds == \A i \in Inj : Called(i) /\ ~Finished(i) => ~Crashed

\* Injection i is in a cycle of transactions that wait for one another.
Deadlocked(i) == i \in WaitClosure(WaitsFor(i), NInj)

\* C7: no injection is ever in a cycle of transactions each waiting for
\* what the next holds, and none fails, when the database fails no query of
\* its own accord.
C7_NoDeadlock == \A i \in Inj : ~Deadlocked(i) /\ ~Failed(i)

\* The bodypart that injection i has at place n of its list.
HashOf(i, n) == d[i].bodyparts[n].row.hash

BodypartsDeduplicated ==
    /\ \A r, x \in db.vocab["bodypart"] : r.key = x.key => r = x
    /\ \A i \in Inj : \A n \in 1..Len(d[i].bodyparts) :
        (d[i].bodyparts[n].bid # 0 /\ db.tx[i].st \in {"active", "committed"}) =>
            \E r \in db.vocab["bodypart"] :
                r.key = HashOf(i, n) /\ r.id = d[i].bodyparts[n].bid /\ Visible(r, i)
    /\ \A i, j \in Inj :
        \A n \in 1..Len(d[i].bodyparts) : \A k \in 1..Len(d[j].bodyparts) :
            (/\ db.tx[i].st = "committed" /\ db.tx[j].st = "committed"
             /\ HashOf(i, n) = HashOf(j, k)) =>
                /\ d[i].bodyparts[n].bid = d[j].bodyparts[k].bid
                /\ d[i].bodyparts[n].bid # 0
    /\ \A i \in Inj :
        /\ d[i].bidFetcher.failed =>
            ~Contains(d[i].bidFetcher.error, "bodyparts_hash_key")
        /\ tr[i].failed => ~Contains(tr[i].err, "bodyparts_hash_key")

\* The process reads that the insert of a bodypart of injection i failed
\* because the hash is there already.
ReadsHashConflict(i) ==
    /\ resp[i] # << >>
    /\ resp'[i] = Tail(resp[i])
    /\ Head(resp[i]).o = "bidFetcher"
    /\ Head(resp[i]).k = "copy"
    /\ Head(resp[i]).failed
    /\ Contains(Head(resp[i]).err, "bodyparts_hash_key")

HashConflictStep ==
    \A i \in Inj :
        ReadsHashConflict(i) =>
            LET q == tr'[i].queue
            IN  /\ Len(q) >= 2 /\ tr'[i].nsent = Len(q)
                /\ q[Len(q) - 1].k = "rollback_to"
                /\ q[Len(q) - 1].a = SavepointName("bodypart", d[i].bidFetcher.savepoint)
                /\ q[Len(q)].k = "select"
                /\ q[Len(q)].a.keys = {HashOf(i, d'[i].bidFetcher.li)}
                /\ ~d'[i].bidFetcher.failed /\ ~d'[i].bidFetcher.done
                /\ ~tr'[i].failed /\ ~d'[i].failed

\* C8: the bodyparts table has at most one row for a hash, the bid that a
\* BidFetcher ends with is the id of the row with the bodypart's hash, so
\* that injections that commit have the same bid for the same hash; and an
\* insert that fails with bodyparts_hash_key is followed by ROLLBACK TO the
\* savepoint of that insert and by the select, and fails neither the
\* BidFetcher nor the transaction nor the injection.
C8_BodypartDedup == BodypartsDeduplicated /\ [][HashConflictStep /\ BodypartsDeduplicated']_vars

\* Both injections have committed, and one of them lost the race for a
\* bodypart: its insert failed with bodyparts_hash_key.
C8_Witness ==
    /\ \A i \in Inj : db.tx[i].st = "committed" /\ ~Failed(i)
    /\ \E i \in Inj : \E n \in 1..Len(d[i].bodyparts) :
        /\ d[i].bodyparts[n].bid # 0
        /\ qr[i][d[i].bodyparts[n].insert].failed
        /\ Contains(qr[i][d[i].bodyparts[n].insert].err, "bodyparts_hash_key")

\* The names or addresses of kind k that the message of injection i needs.
Needs(i, k) ==
    CASE k = "flag" -> Range(d[i].message.flags)
      [] k = "annotation" -> Range(d[i].message.annotations)
      [] k = "field" -> Range(d[i].message.fields)
      [] OTHER -> Range(d[i].message.addresses)

\* The table whose rows refer to the rows of kind k.
LinkTable(k) ==
    CASE k = "flag" -> "flags"
      [] k = "annotation" -> "annotations"
      [] k = "field" -> "header_fields"
      [] OTHER -> "address_fields"

\* The ids that the rows of injection i in the link table of kind k hold.
Linked(i, k) == {r.ref : r \in {x \in db.rows : x.t = LinkTable(k) /\ x.by = i}}

\* The rows of kind k under the key of x.
RowsOf(k, x) == {r \in db.vocab[k] : r.key = KeyOf(k, x)}

\* C9: the table of a kind never has two rows under one key, and when two
\* injections that need the same flag name, annotation name, field name or
\* address have both committed, the table has exactly one committed row
\* for it and the flags, annotations, header_fields or address_fields rows
\* of both injections hold the id of that row.
C9_VocabularyDedup ==
    \A k \in Kinds :
        /\ \A r, x \in db.vocab[k] : r.key = x.key => r = x
        /\ \A i, j \in Inj :
            (i # j /\ db.tx[i].st = "committed" /\ db.tx[j].st = "committed") =>
                \A x \in Needs(i, k) : \A y \in Needs(j, k) :
                    KeyOf(k, x) = KeyOf(k, y) =>
                        \E r \in db.vocab[k] :
                            /\ r.c
                            /\ RowsOf(k, x) = {r}
                            /\ Linked(i, k) = {r.id}
                            /\ Linked(j, k) = {r.id}

\* Two injections that both asked the database for the same name, which
\* neither found in the process, have committed.
C9_Witness ==
    \E k \in Kinds : \E i, j \in Inj :
        /\ i # j
        /\ db.tx[i].st = "committed" /\ db.tx[j].st = "committed"
        /\ d[i].res[k].done /\ d[j].res[k].done
        /\ \E x \in Needs(i, k) : \E y \in Needs(j, k) : KeyOf(k, x) = KeyOf(k, y)

\* The process reads that the COPY of the resolver of kind k of injection i
\* failed with the unique constraint of the table.
ReadsConflict(i, k) ==
    /\ resp[i] # << >>
    /\ resp'[i] = Tail(resp[i])
    /\ Head(resp[i]).o = k
    /\ Head(resp[i]).k = "copy"
    /\ Head(resp[i]).failed
    /\ Contains(Head(resp[i]).err, ConstraintOf(k))

ConflictStep ==
    \A i \in Inj : \A k \in Kinds :
        ReadsConflict(i, k) =>
            LET q  == tr'[i].queue
                r  == d[i].res[k]
                r1 == d'[i].res[k]
                back == CHOOSE n \in 1..Len(q) : q[n].k = "rollback_to"
            IN  /\ r.state = 3 /\ Head(resp[i]).id = r.q
                /\ \E n \in 1..Len(q) : q[n].k = "rollback_to"
                /\ q[back].a = SavepointName(k, r.savepoint)
                /\ q[back].a \in db.tx[i].sp
                /\ r1.savepoint = r.savepoint + 1
                /\ \/ /\ r1.state = 1 /\ ~r1.done
                      /\ back + 1 = Len(q)
                      /\ q[Len(q)].k = "select" /\ q[Len(q)].id = r1.q
                      /\ q[Len(q)].a.keys = {ItemKey(k, x) : x \in Range(r.items)}
                      /\ tr'[i].nsent = Len(q)
                   \/ /\ r1.state = 42 /\ r1.done
                      /\ \A x \in Range(r.items) : Known(Ctx(i, FALSE), k, x)
                /\ ~r1.failed /\ ~d'[i].failed
                /\ d'[i].commits = 0 /\ d'[i].rollbacks = 0

\* The process reads that a ROLLBACK TO of a resolver of injection i was
\* done.
ReadsRecovery(i) ==
    /\ resp[i] # << >>
    /\ resp'[i] = Tail(resp[i])
    /\ Head(resp[i]).o \in Kinds
    /\ Head(resp[i]).k = "rollback_to"
    /\ ~Head(resp[i]).failed

\* A ROLLBACK TO of a resolver of injection i is on its way to the database
\* or its answer on its way back.
Recovering(i) ==
    \/ \E n \in 1..Len(tr[i].queue) :
        tr[i].queue[n].k = "rollback_to" /\ tr[i].queue[n].o \in Kinds
    \/ \E n \in 1..Len(resp[i]) :
        resp[i][n].k = "rollback_to" /\ resp[i][n].o \in Kinds

RecoveryStep == \A i \in Inj : ReadsRecovery(i) => ~tr'[i].failed

\* Nothing has failed, but that a transaction is failed from the conflict
\* to the ROLLBACK TO that undoes it.
ConflictsRecovered ==
    \A i \in Inj :
        /\ ~d[i].failed /\ d[i].rollbacks = 0
        /\ \A k \in Kinds : ~d[i].res[k].failed
        /\ tr[i].failed =>
            /\ Recovering(i)
            /\ \E k \in Kinds : Contains(tr[i].err, ConstraintOf(k))
        /\ tr[i].done => db.tx[i].st = "committed"

\* C10: when the process reads that a resolver's COPY failed with the
\* unique constraint of its table, the resolver enqueues ROLLBACK TO the
\* savepoint that it created before that COPY, counts its savepoint up by
\* one and runs its select again (a query for its names, or none when the
\* process has learnt them all meanwhile); this fails neither the resolver
\* nor the injection, and the transaction is failed() no longer than until
\* the ROLLBACK TO is answered; where the database fails no query of its
\* own accord, every transaction that ends has committed.
C10_ConflictRecovery ==
    /\ ConflictsRecovered
    /\ [][ConflictStep /\ RecoveryStep /\ ConflictsRecovered']_vars

\* An injection whose resolver lost a race, rolled back to its savepoint
\* and selected again has committed.
C10_Witness ==
    \E i \in Inj : \E k \in Kinds :
        /\ d[i].res[k].savepoint = 1
        /\ d[i].res[k].done /\ ~d[i].res[k].failed
        /\ db.tx[i].st = "committed" /\ tr[i].done /\ ~Failed(i)
        /\ Linked(i, k) # {}

\* The resolvers that run before the bodyparts are inserted.
NameKinds == {"flag", "annotation", "field"}

\* C11: when a flag, annotation or field resolver has failed, the injection
\* has failed and rolled its transaction back once, no later phase has
\* started, and once the injection is Done its owner has been notified
\* exactly once and error() has given it the reason of the failure.
C11_ResolverFailureReported ==
    \A i \in Inj : \A k \in NameKinds :
        d[i].res[k].failed =>
            /\ d[i].failed /\ d[i].rollbacks = 1
            /\ d[i].state \in {"AwaitingCompletion", "Done"}
            /\ ~d[i].bidFetcher.on /\ ~d[i].midFetcher.on /\ ~d[i].uidFetcher.on
            /\ d[i].state = "Done" =>
                 d[i].notified = 1 /\ d[i].reason = tr[i].err /\ tr[i].err # ""

\* Injection i has failed, or its transaction has, after the transaction was
\* opened, and Injector::execute() has dealt with it.
FailureHandled(i) ==
    tr[i].on /\ Failed(i) /\ d[i].state \in {"AwaitingCompletion", "Done"}

\* A resolver or fetcher of injection i has reported a failure.
PhaseFailed(i) ==
    \/ \E k \in Kinds : d[i].res[k].failed
    \/ d[i].bidFetcher.failed
    \/ d[i].midFetcher.failed

\* Injection i is past its resolvers and has not yet ended its transaction.
Writing(i) ==
    /\ Rank(d[i].state) >= Rank("SelectingUids")
    /\ Rank(d[i].state) < Rank("AwaitingCompletion")

\* C12, as stated: whenever an injection has failed after its transaction
\* was opened, the injector has called rollback() on the transaction and has
\* set failed on entering AwaitingCompletion.
C12_FailureCallsRollback ==
    \A i \in Inj : FailureHandled(i) => d[i].rollbacks = 1 /\ d[i].failed

\* An injection that is writing finds its transaction failed: it calls
\* commit(), not rollback(), on entering AwaitingCompletion, and sets failed
\* only when it is Done.
FailureStep ==
    \A i \in Inj :
        (Writing(i) /\ tr'[i].failed /\ ~Writing(i)') =>
            /\ d'[i].state \in {"AwaitingCompletion", "Done"}
            /\ d'[i].commits = 1 /\ d'[i].rollbacks = 0
            /\ d'[i].failed => d'[i].state = "Done"

\* C12, amended: an injection that has failed after its transaction was
\* opened has ended the transaction exactly once and is in
\* AwaitingCompletion or Done. It has called rollback() and set failed at
\* once where a resolver or fetcher reported the failure; where the
\* transaction failed, it has called commit() on the failed transaction and
\* sets failed only when the transaction is done. Either way nothing of the
\* transaction is committed.
C12_FailureEndsTransaction ==
    /\ [] \A i \in Inj :
        FailureHandled(i) =>
            /\ d[i].rollbacks + d[i].commits = 1
            /\ d[i].rollbacks = 1 => d[i].failed /\ PhaseFailed(i)
            /\ d[i].commits = 1 => tr[i].failed
            /\ d[i].state = "Done" => d[i].failed
            /\ db.tx[i].st # "committed"
    /\ [][FailureStep]_vars

\* An injection whose transaction failed while it selected its UIDs has ended
\* it by commit() and is Done and failed.
C12_Witness ==
    \E i \in Inj :
        /\ FailureHandled(i) /\ d[i].state = "Done" /\ d[i].failed
        /\ d[i].commits = 1 /\ d[i].rollbacks = 0
        /\ d[i].uidFetcher.on /\ d[i].messageId = 0

\* What execute() can change of injection i, apart from the record of calls
\* made after the owner was notified.
Outcome(i) ==
    << d[i].state, d[i].failed, d[i].owner, d[i].notified, d[i].reason,
       d[i].commits, d[i].rollbacks, d[i].announced, tr[i], qr[i], resp[i] >>

\* C13: an injection of an invalid message never has a transaction or a
\* query; once execute() has been called it has failed, has notified its
\* owner exactly once and gives the message's error, and no later call of
\* execute() changes anything of it.
C13_InvalidFailsFast ==
    /\ [] \A i \in Inj :
        ~d[i].message.valid =>
            /\ ~tr[i].on /\ tr[i].queue = << >> /\ qr[i] = << >> /\ resp[i] = << >>
            /\ d[i].state = "Inactive" /\ d[i].commits = 0 /\ d[i].rollbacks = 0
            /\ d[i].failed => /\ d[i].notified = 1 /\ ~d[i].owner
                              /\ d[i].reason = "invalid message"
            /\ \A r \in db.rows : r.by # i
    /\ [][\A i \in Inj :
            (~d[i].message.valid /\ d[i].failed) => Outcome(i)' = Outcome(i)]_vars
    /\ [][\A i \in Inj :
            (~d[i].message.valid /\ d'[i] # d[i]) => d'[i].failed]_vars

\* An injection of an invalid message has failed and notified its owner, and
\* execute() has been called again after that.
C13_Witness ==
    \E i \in Inj :
        /\ ~d[i].message.valid /\ d[i].failed /\ d[i].notified = 1 /\ d[i].late

\* C14: the state of an injection only moves forward through the thirteen
\* states in their order: every move of d->state is to the state after the
\* one it leaves, or else forward to AwaitingCompletion; Done is entered from
\* AwaitingCompletion only, when the transaction is done; and Done is left
\* no more.
C14_StateForward ==
    \A i \in Inj :
        /\ \A m \in d[i].moves :
            /\ Rank(m[1]) < Rank(m[2])
            /\ Rank(m[2]) = Rank(m[1]) + 1 \/ m[2] = "AwaitingCompletion"
            /\ m[2] = "Done" => m[1] = "AwaitingCompletion"
        /\ d[i].state = "Done" => tr[i].on /\ tr[i].done

\* Injection i is the only one that delivers to mailbox m.
Sole(i, m) ==
    TargetsAt(i, m) # {} /\ \A j \in Inj \ {i} : TargetsAt(j, m) = {}

\* Mailbox m has a session.
Attached(m) == \E s \in DOMAIN session : session[s].mailbox = m

\* What the only injection into mailbox m, committed, has left there, when
\* uidnext was first_recent before it and it advances first_recent by n.
LeftBy(i, m, n) ==
    LET pre == InitialMailboxes[m]
    IN  (/\ Sole(i, m) /\ db.tx[i].st = "committed"
         /\ pre.uidnext = pre.first_recent) =>
            /\ db.mb[m] = [uidnext |-> pre.uidnext + 1,
                           nextmodseq |-> pre.nextmodseq + 1,
                           first_recent |-> pre.first_recent + n]
            /\ \E r \in MailboxMessages(m) :
                /\ MailboxMessages(m) = {r}
                /\ r.c /\ r.uid = pre.uidnext /\ r.ms = pre.nextmodseq

\* C15, as stated: the only injection into a mailbox whose uidnext was
\* first_recent leaves uidnext, nextmodseq and first_recent each one more
\* than they were, and one mailbox_messages row with the uidnext and
\* nextmodseq that were.
C15_SingleInjection == \A i \in Inj : \A m \in Mbx : LeftBy(i, m, 1)

\* C15, amended: it leaves uidnext and nextmodseq one more than they were and
\* one mailbox_messages row with the uidnext and nextmodseq that were;
\* first_recent is one more than it was when the mailbox has a session, and
\* is what it was when the mailbox has none.
C15_SingleInjectionWithSession ==
    \A i \in Inj : \A m \in Mbx : LeftBy(i, m, IF Attached(m) THEN 1 ELSE 0)

\* The only injection into mailbox 1, which has a session, has committed and
\* left 2, 2, 2 there.
C15_Witness ==
    \E i \in Inj :
        /\ Sole(i, 1) /\ db.tx[i].st = "committed" /\ Attached(1)
        /\ InitialMailboxes[1] = [uidnext |-> 1, nextmodseq |-> 1, first_recent |-> 1]
        /\ db.mb[1] = [uidnext |-> 2, nextmodseq |-> 2, first_recent |-> 2]

\* The increments among the queries qs.
Increments(qs) == SelectSeq(qs, LAMBDA x : x.k = "update_mailbox")

\* The UidFetcher of injection i takes the rows of its lock queries: for each
\* it enqueues one increment, with first_recent if the row has uidnext equal
\* to first_recent and the mailbox has a session, which it records, and
\* without if not, when it records none.
IncrementStep ==
    \A i \in Inj :
        LET a   == d[i].uidFetcher.li
            b   == d'[i].uidFetcher.li
            new == SubSeq(tr'[i].queue, Len(tr[i].queue) + 1, Len(tr'[i].queue))
        IN  b > a =>
                /\ Len(Increments(new)) = b - a
                /\ \A n \in a..(b - 1) :
                    LET u      == d'[i].mailboxes[n]
                        row    == db.mb[u.mailbox]
                        recent == row.uidnext = row.first_recent /\ Attached(u.mailbox)
                    IN  /\ Increments(new)[n - a + 1].a =
                                [m |-> u.mailbox, recent |-> recent]
                        /\ u.uid = row.uidnext /\ u.ms = row.nextmodseq
                        /\ recent <=> u.recentIn # 0
                        /\ recent => session[u.recentIn].mailbox = u.mailbox

\* The injections into mailbox m that have committed, and those of them that
\* recorded a session.
Committed(m) == {i \in Inj : TargetsAt(i, m) # {} /\ db.tx[i].st = "committed"}

CommittedRecent(m) == {i \in Committed(m) : \E u \in TargetsAt(i, m) : u.recentIn # 0}

\* Each committed injection has advanced uidnext and nextmodseq by one, and
\* first_recent by one if it recorded a session.
Incremented ==
    \A m \in Mbx :
        db.lock[m] = 0 =>
            /\ db.mb[m].uidnext =
                   InitialMailboxes[m].uidnext + Cardinality(Committed(m))
            /\ db.mb[m].nextmodseq =
                   InitialMailboxes[m].nextmodseq + Cardinality(Committed(m))
            /\ db.mb[m].first_recent =
                   InitialMailboxes[m].first_recent + Cardinality(CommittedRecent(m))

\* C16: for each target mailbox the UidFetcher enqueues exactly one
\* increment; it enqueues the one that advances first_recent, and records a
\* session of the mailbox, if and only if the locked row has uidnext equal
\* to first_recent and the mailbox has a session; otherwise it enqueues the
\* plain one, records no session, and first_recent stays as it is.
C16_RecentIncrement == [] Incremented /\ [][IncrementStep]_vars

\* An injection into both mailboxes, each of which has a session, has
\* committed: it recorded a session for mailbox 1, where uidnext was
\* first_recent, and advanced first_recent there, and recorded none for
\* mailbox 2, where it was not, and left first_recent there as it was.
C16_Witness ==
    \E i \in Inj :
        /\ db.tx[i].st = "committed" /\ Len(d[i].mailboxes) = 2
        /\ Attached(1) /\ Attached(2)
        /\ d[i].mailboxes[1].recentIn # 0 /\ d[i].mailboxes[2].recentIn = 0
        /\ db.mb[1].first_recent > InitialMailboxes[1].first_recent
        /\ db.mb[2].first_recent = InitialMailboxes[2].first_recent
        /\ db.mb[2].uidnext = InitialMailboxes[2].uidnext + 1

\* The targets at mailbox m of the injections that are announced.
AnnouncedAt(m) == UNION {TargetsAt(i, m) : i \in {j \in Inj : d[j].announced > 0}}

\* C17: the UID of every announced injection into a mailbox is in the
\* unannounced set of every session of that mailbox and in the recent set of
\* the session the injection recorded, and of no other: no UID is in the
\* recent sets of two sessions, and the UID of an injection that used the
\* plain increment is in none; and the sets hold nothing else.
C17_AnnounceToSessions ==
    /\ \A s \in DOMAIN session :
        /\ session[s].unannounced = {u.uid : u \in AnnouncedAt(session[s].mailbox)}
        /\ session[s].recent =
               {u.uid : u \in {x \in AnnouncedAt(session[s].mailbox) : x.recentIn = s}}
    /\ \A s, t \in DOMAIN session :
        (s # t /\ session[s].mailbox = session[t].mailbox) =>
            session[s].recent \cap session[t].recent = {}
    /\ \A m \in Mbx : \A u \in AnnouncedAt(m) :
        u.recentIn = 0 =>
            \A s \in DOMAIN session :
                session[s].mailbox = m => u.uid \notin session[s].recent
    /\ \A i \in Inj : d[i].announced > 0 => db.tx[i].st = "committed" /\ ~Failed(i)

\* Two sessions have mailbox 1 selected, and one injection into it is
\* announced: its UID is unannounced in both and recent in the first only.
C17_Witness ==
    /\ session[1].mailbox = 1 /\ session[2].mailbox = 1
    /\ \E i \in Inj : d[i].announced > 0 /\ d[i].mailboxes[1].recentIn = 1
    /\ session[1].recent # {} /\ session[2].recent = {}
    /\ session[1].unannounced # {} /\ session[2].unannounced = session[1].unannounced

\* This step announces injection i.
Announces(i) == d'[i].announced = d[i].announced + 1

\* announce() leaves the Mailbox object of each target with the larger of
\* what it had and the injection's value plus one, and the others as they
\* were; no other step changes a Mailbox object.
MailboxStep ==
    /\ mailbox' # mailbox => \E i \in Inj : Announces(i)
    /\ \A i \in Inj :
        Announces(i) =>
            \A m \in Mbx :
                IF TargetsAt(i, m) = {} THEN mailbox'[m] = mailbox[m]
                ELSE \E u \in TargetsAt(i, m) :
                        /\ mailbox'[m].uidnext = Max(mailbox[m].uidnext, u.uid + 1)
                        /\ mailbox'[m].nextmodseq = Max(mailbox[m].nextmodseq, u.ms + 1)

\* C18: announce() never lowers the uidnext or the nextmodseq of a Mailbox
\* object: after it they are the larger of what they were and the
\* injection's UID + 1 and modseq + 1, in whatever order the committed
\* injections are announced, and nothing else of the injector changes them.
C18_AnnounceNeverDecreases ==
    [][/\ MailboxStep
       /\ \A m \in Mbx : /\ mailbox'[m].uidnext >= mailbox[m].uidnext
                         /\ mailbox'[m].nextmodseq >= mailbox[m].nextmodseq]_vars

\* Two injections into mailbox 1 are announced, the one with the larger UID
\* first: the Mailbox object was raised once, by that one, and the other
\* left it as it was.
C18_Witness ==
    \E i, j \in Inj :
        /\ d[i].announced > 0 /\ d[j].announced > 0
        /\ d[i].mailboxes[1].mailbox = 1 /\ d[j].mailboxes[1].mailbox = 1
        /\ d[i].mailboxes[1].uid < d[j].mailboxes[1].uid
        /\ mailbox[1].uidnext = d[j].mailboxes[1].uid + 1
        /\ SelectSeq(occ, LAMBDA x : x.m = 1) =
               << [m |-> 1, uidnext |-> d[j].mailboxes[1].uid + 1,
                   nextmodseq |-> d[j].mailboxes[1].ms + 1] >>

\* The numbers of the set S in ascending order.
Ascending(S) ==
    [n \in 1..Cardinality(S) |->
        CHOOSE x \in S : Cardinality({y \in S : y < x}) = n - 1]

\* The shared queue holds the queries that are Submitted, each once, in the
\* order in which they were given to submit().
QueueInOrder ==
    /\ \A a, b \in 1..Len(queries) : a < b => queries[a] < queries[b]
    /\ Range(queries) = {q \in Submitted : qstate[q] = "Submitted"}

\* Every step leaves the queue as it was with the queries submitted in the
\* step after it, in their order, less the queries at its head that
\* runQueue() has handed to handles; what is left is Submitted.
SubmitStep ==
    LET all == queries \o Ascending(Submitted' \ Submitted)
    IN  \E k \in 0..Len(all) :
            /\ queries' = SubSeq(all, k + 1, Len(all))
            /\ \A n \in 1..k : qstate'[all[n]] = "Executing"
            /\ \A n \in (k + 1)..Len(all) : qstate'[all[n]] = "Submitted"

\* C19: submit( q ) puts q at the tail of the shared queue and sets it to
\* Submitted, and submit( list ) puts the queries of the list there in the
\* order of the list and sets each to Submitted; the queries already queued
\* keep their places and none is dropped, so that the queue is in the order
\* of submission; a query leaves the queue only at its head.
C19_SubmitAppends == [] QueueInOrder /\ [][SubmitStep]_vars

\* The first query is with a handle, and the two submitted after it are
\* queued in the order of their submission.
C19_Witness ==
    /\ queries = << 2, 3 >>
    /\ qstate[1] = "Executing" /\ qstate[2] = "Submitted" /\ qstate[3] = "Submitted"
    /\ \E h \in DOMAIN handles : handles[h].query = 1

\* runQueue() has handed handle h a query in this step.
Handed(h) ==
    /\ h \in DOMAIN handles
    /\ handles'[h].query # 0
    /\ handles'[h].query # handles[h].query

\* C20: runQueue() hands a queued query only to a handle that is Idle and
\* usable, never to one that is Connecting, Broken, InTransaction,
\* FailedTransaction or not usable; and the number of busy handles it
\* reports counts every handle that is InTransaction or FailedTransaction,
\* or not usable and neither Connecting nor Broken.
C20_IdleHandlesOnly ==
    [][/\ \A h \in DOMAIN handles' :
            Handed(h) => handles[h].st = "Idle" /\ handles[h].usable
       /\ Submitted' # Submitted =>
            stats'.busy = Cardinality({h \in DOMAIN handles : Busy(handles[h])})]_vars

\* The queue as runQueue() finds it in this step: the queue before with the
\* queries submitted in the step.
Found == queries \o Ascending(Submitted' \ Submitted)

\* This step has created a handle.
Grown == Len(handles') > Len(handles)

\* What every creation of a handle has in common: one handle is created,
\* nothing was dispatched, no handle is connecting and the pool is below
\* db-max-handles.
GrowStep ==
    Grown =>
        /\ Len(handles') = Len(handles) + 1
        /\ firstElement(queries') = firstElement(Found)
        /\ \A h \in DOMAIN handles : handles[h].st # "Connecting"
        /\ Len(handles) < DbMaxHandles

\* C21 as stated: runQueue() creates a handle only when the head of the
\* queue is unchanged after dispatch, no handle is Connecting, there are
\* fewer than db-max-handles handles and db-handle-interval has passed since
\* the last handle was created; and it creates at most one.
C21_GrowAfterInterval == [][GrowStep /\ (Grown => ~justCreated)]_vars

\* C21: runQueue() creates a handle only when the head of the queue is
\* unchanged after dispatch, no handle is Connecting, there are fewer than
\* db-max-handles handles, and either db-handle-interval has passed since the
\* last handle was created or the pool has no handle at all; and it creates
\* at most one.
C21_GrowAfterIntervalOrEmpty ==
    [][GrowStep /\ (Grown => ~justCreated \/ handles = << >>)]_vars

\* The pool lost its last handle with a query queued, and has a handle again.
C21_Witness ==
    /\ Len(handles) = 1
    /\ \E n \in DOMAIN notices : notices[n][2] = NoHandles

\* The handles whose timeout this step has changed.
Shortened == {h \in DOMAIN handles : handles'[h].timeout # handles[h].timeout}

\* C22: when a dispatch has emptied the queue and the server is reached by
\* TCP, runQueue() shortens the timeout of at most one handle, and that
\* handle is Idle, processes no query and is not occupied by a transaction;
\* when the server is reached by a Unix socket it shortens no timeout.
C22_ShrinkIdleHandle ==
    [][/\ Cardinality(Shortened) <= 1
       /\ \A h \in Shortened :
            /\ ~conf.unix
            /\ queries' = << >>
            /\ handles'[h].st = "Idle"
            /\ handles'[h].usable
            /\ handles'[h].query = 0]_vars

\* The notices of the failure of the queries qs, in their order.
Failures(qs) == [n \in 1..Len(qs) |-> << qs[n], NoHandles >>]

\* The notices without the disasters logged.
RECURSIVE Notified(_)
Notified(ns) ==
    IF ns = << >> THEN << >>
    ELSE IF Head(ns)[1] = 0 THEN Notified(Tail(ns))
    ELSE << Head(ns) >> \o Notified(Tail(ns))

\* A step that removes a handle: with the last handle the queued queries
\* fail, each is notified once with the error, and the queue is empty;
\* otherwise the queue and the queries are as they were.
RemoveStep ==
    Len(handles') < Len(handles) =>
        IF handles' = << >>
        THEN /\ queries' = << >>
             /\ \A q \in Range(queries) : qstate'[q] = "Failed"
             /\ \A q \in Submitted \ Range(queries) : qstate'[q] = qstate[q]
             /\ Notified(notices') = Notified(notices) \o Failures(queries)
        ELSE /\ queries' = queries
             /\ qstate' = qstate
             /\ notices' = notices

\* C23: when removeHandle() removes the last handle, every query in the
\* queue gets the error "No available database handles.", its owner is
\* notified and the query leaves the queue, which is empty afterwards; while
\* a handle remains, removeHandle() fails no query and leaves the queue as
\* it was.
C23_LastHandleFailsQueue == [][RemoveStep]_vars

\* The last handle went with two queries queued.
C23_Witness ==
    /\ handles = << >>
    /\ queries = << >>
    /\ Notified(notices) = Failures(<< 1, 2 >>)

\* C24: a query does not stay in the queue of a pool that has no handle and
\* can create none: a query submitted then is failed at once.
C24_NoQueryStranded ==
    handles = << >> /\ conf.unix /\ ~conf.inRoot => queries = << >>

\* The table of the store-decision: whether the text and the data of a part
\* of content type type/subtype are stored.
StoreTable(type, subtype) ==
    IF type = "" THEN [text |-> TRUE, data |-> FALSE]
    ELSE IF type = "text" /\ subtype = "html" THEN [text |-> TRUE, data |-> TRUE]
    ELSE IF type = "text" THEN [text |-> TRUE, data |-> FALSE]
    ELSE IF type = "multipart" /\ subtype = "signed" THEN [text |-> FALSE, data |-> TRUE]
    ELSE IF type = "multipart" THEN [text |-> FALSE, data |-> FALSE]
    ELSE IF type = "message" /\ subtype = "rfc822" THEN [text |-> FALSE, data |-> FALSE]
    ELSE [text |-> FALSE, data |-> TRUE]

\* setupBodyparts() of injection i has treated part n as the table says.
AsTable(i, n) ==
    LET p    == d[i].message.parts[n]
        b    == d[i].bodyparts[n]
        want == StoreTable(p.type, p.subtype)
    IN  /\ b.row.text # 0 <=> want.text
        /\ b.row.data # 0 <=> want.data
        /\ b.insert # 0 <=> want.text \/ want.data
        /\ b.select # 0 <=> want.text \/ want.data
        /\ ~want.text /\ ~want.data => b.bid = 0

\* C25: setupBodyparts() stores of a part what the table says for its
\* content type: text and data of text/html, the text of any other text, the
\* data of multipart/signed, nothing of any other multipart and of
\* message/rfc822, for which it creates no queries and the bid stays 0, the
\* data of every other type, and of a part without content type the text.
C25_StoreDecision ==
    \A i \in Inj : \A n \in DOMAIN d[i].bodyparts :
        d[i].bidFetcher.on => AsTable(i, n)

\* Injections of a text/html part and of a multipart/mixed part are done:
\* the one has a bodyparts row with text and data, the other has none.
C25_Witness ==
    /\ d[1].state = "Done" /\ d[2].state = "Done"
    /\ d[1].message.parts[1].subtype = "html" /\ d[1].bodyparts[1].bid # 0
    /\ d[2].message.parts[1].subtype = "mixed" /\ d[2].bodyparts[1].bid = 0

\* The places in the AddressCreator's list of the addresses that injection i
\* refers to: those of the header fields, the remote recipients and the
\* sender.
Referenced(i) ==
    LET items == d[i].res["address"].items
    IN  {n \in DOMAIN items :
            \E a \in Range(d[i].message.addresses) :
                /\ addressKey(items[n]) = addressKey(a)
                /\ \A x \in 1..(n - 1) : addressKey(items[x]) # addressKey(a)}
        \cup Range(d[i].recipientsAt)
        \cup (IF d[i].senderAt = 0 THEN {} ELSE {d[i].senderAt})

\* The address phase of injection i is over, and has not failed.
Resolved(i) == d[i].res["address"].done /\ ~d[i].res["address"].failed

\* C26: when the address phase has completed without failure, every address
\* of a header field, the sender and every remote recipient has an id that
\* is not 0, the id of the addresses row with its canonical key, so that two
\* of them with the same key have the same id; also when there are more
\* addresses without id than one select asks for.
C26_AddressesResolved ==
    \A i \in Inj : Resolved(i) =>
        LET items == d[i].res["address"].items
        IN  /\ Len(d[i].recipientsAt) = Len(d[i].remoteRecipients)
            /\ d[i].sender # << >> => d[i].senderAt # 0
            /\ \A n \in Referenced(i) :
                /\ items[n].id # 0
                /\ \E r \in db.vocab["address"] :
                        r.key = addressKey(items[n]) /\ r.id = items[n].id
                /\ \A m \in Referenced(i) :
                        addressKey(items[m]) = addressKey(items[n])
                            => items[m].id = items[n].id

\* An injection has resolved more addresses than one select asks for, among
\* them a header address and a recipient that differ in the spelling of the
\* domain only.
C26_Witness ==
    \E i \in Inj :
        LET items == d[i].res["address"].items
        IN  /\ Resolved(i)
            /\ Cardinality(Referenced(i)) > MaxSelect
            /\ \E m, n \in Referenced(i) :
                    /\ m # n
                    /\ items[m].domain # items[n].domain
                    /\ addressKey(items[m]) = addressKey(items[n])

\* The rows of table t that the transaction of injection i has inserted.
RowsOfInjection(t, i) == {r \in db.rows : r.t = t /\ r.by = i}

\* The transaction of injection i has committed.
CommittedInjection(i) == db.tx[i].st = "committed"

\* The mailbox of an address: its localpart and its domain in lower case.
MailboxOf(a) == << a.localpart, Lower(a.domain) >>

\* The committed addresses rows with the id x.
AddressRows(x) == {r \in db.vocab["address"] : r.id = x /\ r.c}

\* Injection i has spooled its message once, from its sender, and to each of
\* its recipients as often as the recipient is in the list.
Spooled(i) ==
    LET D  == RowsOfInjection("deliveries", i)
        R  == RowsOfInjection("delivery_recipients", i)
        rs == d[i].remoteRecipients
    IN  /\ Cardinality(D) = 1
        /\ \A x \in D :
            /\ x.c
            /\ x.msg = d[i].messageId /\ x.msg # 0
            /\ \E a \in AddressRows(x.ref) : MailboxOf(a.val) = MailboxOf(d[i].sender[1])
        /\ Cardinality(R) = Len(rs)
        /\ \A r \in R :
            /\ r.c
            /\ \E x \in D : r.uid = x.uid
            /\ AddressRows(r.ref) # {}
        /\ \A n \in DOMAIN rs :
                Cardinality({r \in R : \E a \in AddressRows(r.ref) :
                                MailboxOf(a.val) = MailboxOf(rs[n])})
                    = Cardinality({x \in DOMAIN rs : MailboxOf(rs[x]) = MailboxOf(rs[n])})

\* C27: a committed injection with remote recipients has inserted one
\* deliveries row, with the id of its sender and the id of its message, and
\* one delivery_recipients row for each remote recipient, each referring to
\* that deliveries row, whatever other injections spool meanwhile; an
\* injection without remote recipients inserts no row into either table.
C27_DeliveriesSpooled ==
    \A i \in Inj :
        /\ CommittedInjection(i) /\ d[i].remoteRecipients # << >> => Spooled(i)
        /\ d[i].remoteRecipients = << >> =>
                /\ RowsOfInjection("deliveries", i) = {}
                /\ RowsOfInjection("delivery_recipients", i) = {}

\* Two injections have committed, each with its own deliveries row, the
\* first for two recipients; the deliveries row of the first has the higher
\* id, so that the other injection spooled while this one was at work.
C27_Witness ==
    /\ CommittedInjection(1) /\ CommittedInjection(2)
    /\ Len(d[1].remoteRecipients) = 2 /\ Len(d[2].remoteRecipients) = 1
    /\ \E x \in RowsOfInjection("deliveries", 1) :
       \E y \in RowsOfInjection("deliveries", 2) :
            /\ x.uid > y.uid
            /\ d[1].messageId < d[2].messageId

\* The rows of table t in mailbox m.
RowsIn(t, m) == {r \in db.rows : r.t = t /\ r.m = m}

\* The rows the undelete has put into mailbox_messages.
Undeleted == {r \in db.rows : r.t = "mailbox_messages" /\ r.by = Und}

\* The transaction of undelete commits in this step.
UndeleteCommits == db.tx[Und].st # "committed" /\ db'.tx[Und].st = "committed"

\* What the undelete read under the lock of the mailbox.
UndeleteRead == CHOOSE r \in und.uidnext.rows : TRUE

UndeleteNumbers ==
    LET U == UndeleteRead.uidnext
        S == UndeleteRead.nextmodseq
        N == Cardinality(und.find.rows)
    IN  /\ N >= 1
        /\ Cardinality(Undeleted) = N
        /\ {r.uid : r \in Undeleted} = U .. (U + N - 1)
        /\ \A r \in Undeleted : r.ms = S /\ r.m = und.m
        /\ db.mb[und.m].uidnext = U + N
        /\ db.mb[und.m].nextmodseq = S + 1

\* C28: an undelete of N >= 1 matching messages that read uidnext U and
\* nextmodseq S under the lock of the mailbox has, when its transaction
\* commits, inserted N rows into mailbox_messages with the UIDs U .. U+N-1,
\* each with modseq S, and left the mailbox with uidnext U+N and nextmodseq
\* S+1; the rows keep those numbers afterwards.
C28_UndeleteNumbers ==
    /\ [](db.tx[Und].st = "committed" =>
            /\ Cardinality(Undeleted) = Cardinality(und.find.rows)
            /\ {r.uid : r \in Undeleted} =
                    UndeleteRead.uidnext ..
                        (UndeleteRead.uidnext + Cardinality(und.find.rows) - 1)
            /\ \A r \in Undeleted : r.ms = UndeleteRead.nextmodseq)
    /\ [][UndeleteCommits => UndeleteNumbers']_vars

\* Two messages have been undeleted, after an injection into the same
\* mailbox has committed, and the command has finished.
C28_Witness ==
    /\ und.ended = "finished"
    /\ db.tx[Und].st = "committed"
    /\ Cardinality(Undeleted) = 2
    /\ UndeleteRead.uidnext > InitialMailboxes[und.m].uidnext

\* The matched messages are in the mailbox and no longer among the deleted.
Restored ==
    \A x \in und.find.rows :
        LET gone == {r \in db.rows : r.t = "deleted_messages" /\ r.m = und.m
                                      /\ r.uid = x.uid /\ r.c}
        IN  /\ gone = {}
            /\ \A r \in {DeletedMessage(11, 2, 1), DeletedMessage(12, 2, 2)} :
                    r.uid = x.uid /\ r.m = und.m =>
                        \E y \in Undeleted : y.msg = r.msg /\ y.c

\* The matched messages are among the deleted and not in the mailbox.
StillDeleted ==
    /\ \A r \in Undeleted : ~r.c
    /\ \A r \in {DeletedMessage(11, 2, 1), DeletedMessage(12, 2, 2)} : r \in db.rows

\* C29: an undelete whose selector matches k >= 1 rows of deleted_messages
\* ends with its transaction committed, each matched message in
\* mailbox_messages and none of them in deleted_messages; if the
\* transaction failed, the matched rows are in deleted_messages only.
C29_UndeleteRoundTrip ==
    /\ und.ended # "" /\ und.find.rows # {} =>
            und.ended = "finished" /\ db.tx[Und].st = "committed" /\ Restored
    /\ und.failed /\ und.done => StillDeleted

\* The UIDs that injection i has been given.
Assigned(i) == {n \in DOMAIN d[i].mailboxes : d[i].mailboxes[n].uid # 0}

C31_DoneOnlyWhenFinished ==
    \A i \in Inj :
        done(d[i]) /\ ~Crashed =>
            /\ d[i].notified >= 1
            /\ tr[i].on => tr[i].done

\* The keys of the resolver of kind k of injection i that the process knows
\* by a row that another transaction created.
LearntFromOthers(i, k) ==
    LET r == d[i].res[k]
        c == [cache |-> cache]
    IN  {ItemKey(k, r.items[n]) : n \in
            {x \in DOMAIN r.items :
                /\ Known(c, k, r.items[x])
                /\ \E row \in db.vocab[k] :
                        /\ row.id = IdOf(c, k, r.items[x])
                        /\ row.key = ItemKey(k, r.items[x])
                        /\ row.by # i}}

\* Each conflict of a resolver, but one whose select is not yet answered,
\* has been followed by a select that found a key the more.
ConflictsBounded ==
    \A i \in Inj : \A k \in Kinds :
        LET r == d[i].res[k]
        IN  r.on =>
              r.savepoint <= Cardinality(LearntFromOthers(i, k))
                               + (IF r.state = 1 THEN 1 ELSE 0)

\* Every resolver that has been started is done.
ResolversDone == \A i \in Inj : \A k \in Kinds : d[i].res[k].on => d[i].res[k].done

\* C32: where the database answers every query and the process reads every
\* answer, each resolver that was started reaches done, and stays so: from
\* some time on every resolver that has been started is done; a resolver
\* has had no more conflicts than there are keys that a select after a
\* conflict found, so that the loop of select, savepoint, COPY and ROLLBACK
\* TO ends.
C32_ResolversEnd ==
    /\ []ConflictsBounded
    /\ <>[]ResolversDone

\* Both injections have resolved the same key, one of them after a conflict.
C32_Witness ==
    \E k \in Kinds :
        /\ \A i \in Inj : /\ d[i].res[k].on /\ d[i].res[k].done
                           /\ ~d[i].res[k].failed
        /\ \E i \in Inj : /\ d[i].res[k].savepoint = 1
                           /\ LearntFromOthers(i, k) # {}
        /\ \E i \in Inj : d[i].res[k].savepoint = 0 /\ LearntFromOthers(i, k) = {}

\* A lock query of injection i has returned no row.
LockWithoutRow(i) == d[i].uidFetcher.on /\ d[i].uidFetcher.failed

\* C33: an injection one of whose lock queries returned no row fails: it
\* goes no further than to roll back, commits no row of mailbox_messages,
\* announces nothing, and has recorded for no target mailbox a UID or modseq
\* from the row of another mailbox.
C33_MissingRowFails ==
    \A i \in Inj :
        LockWithoutRow(i) /\ d[i].uidFetcher.queries = << >> =>
            /\ d[i].state \in {"SelectingUids", "AwaitingCompletion", "Done"}
            /\ d[i].state = "Done" => d[i].failed
            /\ d[i].announced = 0
            /\ \A r \in db.rows : r.t = "mailbox_messages" /\ r.by = i => ~r.c
            /\ \A n \in DOMAIN d[i].mailboxes :
                LET u == d[i].mailboxes[n]
                IN  u.uid # 0 =>
                        /\ HasRow(db, u.mailbox)
                        /\ db.lock[u.mailbox] = i =>
                                u.uid + 1 = db.mb[u.mailbox].uidnext

\* The bodyparts of injection i that are stored, by their place in the list.
Storable(i) == {n \in DOMAIN d[i].bodyparts : d[i].bodyparts[n].insert # 0}

\* The number of the bodyparts that BidFetcher processes before bodypart p.
ProcessedBefore(i, p) == Cardinality({n \in Storable(i) : n < p})

\* What a step has enqueued for the BidFetcher of injection i: the database
\* takes queries off the head of the queue, the process adds them at its end.
BidIssued(i) ==
    IF Len(tr'[i].queue) > Len(tr[i].queue)
    THEN SelectSeq(SubSeq(tr'[i].queue, Len(tr[i].queue) + 1, Len(tr'[i].queue)),
                   LAMBDA e : e.o = "bidFetcher")
    ELSE << >>

\* Query id of injection i has not been enqueued.
NotIssued(i, id) ==
    /\ ~qr[i][id].done
    /\ \A n \in DOMAIN tr[i].queue : tr[i].queue[n].id # id
    /\ \A n \in DOMAIN resp[i] : resp[i][n].id # id

\* A step starts bodypart p: the savepoint of its number and its insert,
\* once the select of every storable bodypart before it is done.
BidStarts(i, p) ==
    LET new == BidIssued(i)
        b   == d'[i].bodyparts[p]
    IN  /\ Len(new) = 2
        /\ new[1].k = "savepoint"
        /\ new[1].a = SavepointName("bodypart", ProcessedBefore(i, p)')
        /\ new[2].k = "copy" /\ new[2].id = b.insert
        /\ b.insert \in DOMAIN qr[i] => NotIssued(i, b.insert)
        /\ \A n \in Storable(i)' :
                n < p => /\ qr'[i][d'[i].bodyparts[n].select].done
                         /\ d'[i].bodyparts[n].bid # 0

\* A step goes on with bodypart p, whose insert is done: the select, after
\* ROLLBACK TO the savepoint if and only if the hash was there already.
BidSelects(i, p) ==
    LET new == BidIssued(i)
        b   == d'[i].bodyparts[p]
        ins == qr'[i][b.insert]
        sel == new[Len(new)]
    IN  /\ ins.done
        /\ sel.k = "select" /\ sel.id = b.select
        /\ NotIssued(i, b.select)
        /\ IF ins.failed
           THEN /\ Contains(ins.err, "bodyparts_hash_key")
                /\ Len(new) = 2
                /\ new[1].k = "rollback_to"
                /\ new[1].a = SavepointName("bodypart", ProcessedBefore(i, p)')
           ELSE Len(new) = 1

BidFetcherStep ==
    \A i \in Inj :
        \/ BidIssued(i) = << >>
        \/ \E p \in Storable(i)' : BidStarts(i, p) \/ BidSelects(i, p)

\* A bodypart that is not stored has no query and no bid.
SkippedHaveNoBid ==
    \A i \in Inj : \A n \in DOMAIN d[i].bodyparts :
        n \notin Storable(i) =>
            d[i].bodyparts[n].bid = 0 /\ d[i].bodyparts[n].select = 0

\* C34: BidFetcher takes the storable bodyparts one at a time in the order
\* of the list: for the bodypart before which it has processed n others it
\* enqueues SAVEPOINT a{n} and the insert, neither of them a second time and
\* only once the select of every storable bodypart before it is done, then
\* ROLLBACK TO a{n} if and only if the insert failed with
\* bodyparts_hash_key, then the select; a bodypart that is not stored gets
\* no query and keeps the bid 0.
C34_OneBodypartAtATime ==
    /\ []SkippedHaveNoBid
    /\ [][BidFetcherStep]_vars

\* An injection has the bids of two attachments between which a container
\* was skipped, the second of them found after ROLLBACK TO a1.
C34_Witness ==
    \E i \in Inj :
        /\ Len(d[i].bodyparts) = 4
        /\ d[i].bidFetcher.done /\ ~d[i].bidFetcher.failed
        /\ d[i].bidFetcher.savepoint = 2
        /\ d[i].bodyparts[2].bid # 0 /\ d[i].bodyparts[4].bid # 0
        /\ d[i].bodyparts[3].bid = 0
        /\ ~qr[i][d[i].bodyparts[2].insert].failed
        /\ qr[i][d[i].bodyparts[4].insert].failed

\* Injections i and j hold UIDs of mailbox m, i the smaller one.
HoldsSmaller(i, j, m) ==
    \E u \in TargetsAt(i, m) : \E v \in TargetsAt(j, m) :
        u.uid # 0 /\ v.uid # 0 /\ u.uid < v.uid

\* The largest UID of mailbox m that injection i holds.
UidAt(i, m) ==
    CHOOSE x \in {u.uid : u \in TargetsAt(i, m)} :
        \A y \in {u.uid : u \in TargetsAt(i, m)} : y <= x

Injected == {r \in db.rows : r.t = "mailbox_messages" /\ r.by \in Inj}

\* C36: an undelete and an injection into the same mailbox take the lock of
\* the mailbox row one after the other: no UID of a mailbox is given both
\* to an undeleted and to an injected message, and when both transactions
\* have committed the uidnext of the mailbox is above every UID that either
\* of them gave.
C36_UndeleteAndInjection ==
    /\ \A r \in Undeleted : \A x \in Injected : ~(r.m = x.m /\ r.uid = x.uid)
    /\ db.tx[Und].st = "committed" /\ db.tx[1].st = "committed" =>
            \A r \in Undeleted \cup Injected : db.mb[r.m].uidnext > r.uid

\* The undelete and the injection have committed rows in the same mailbox,
\* the undelete after the injection or before it.
C36_Witness ==
    /\ db.tx[Und].st = "committed" /\ db.tx[1].st = "committed"
    /\ \E r \in Undeleted : \E x \in Injected :
            r.m = x.m /\ r.c /\ x.c /\ x.uid < r.uid
    /\ und.ended = "finished" /\ d[1].state = "Done"

\* C37: of an injection that has opened its transaction, commit() and
\* rollback() are called at most once between them, however often execute()
\* is called, and of an injection that is Done one of them has been called:
\* the number of the calls never goes down, so that neither is called after
\* the other.
C37_OneEndOfTransaction ==
    /\ [] \A i \in Inj :
            tr[i].on =>
                /\ d[i].commits + d[i].rollbacks <= 1
                /\ d[i].state = "Done" => d[i].commits + d[i].rollbacks = 1
    /\ [][\A i \in Inj : /\ d'[i].commits >= d[i].commits
                         /\ d'[i].rollbacks >= d[i].rollbacks]_vars

\* An injection whose transaction failed has called rollback() and is Done,
\* and execute() was called on it after that.
C37_Witness ==
    \E i \in Inj :
        /\ tr[i].on /\ d[i].state = "Done" /\ d[i].late /\ tr[i].failed
        /\ d[i].rollbacks = 1 /\ d[i].commits = 0

\* The queries that injection i has enqueued and that P holds of.
Enqueued(i, P(_)) == SelectSeq(tr[i].log, P)

\* The COPY of injection i into table t, where it has a row.
CopiesInto(i, t) ==
    Enqueued(i, LAMBDA e : e.k = "insert_rows" /\ e.o = "none"
                           /\ \E r \in e.a : r.t = t)

\* No query of injection i that P holds of has been enqueued twice.
NoneTwice(i, P(_)) ==
    LET L == Enqueued(i, P)
    IN  \A x, y \in DOMAIN L : L[x] = L[y] => x = y

\* C38: whoever calls Injector::execute(), and however often, an injection
\* enqueues at most once: the insert into messages, the lock query and the
\* increment of each target mailbox, the COPY into each of
\* mailbox_messages, part_numbers, header_fields, date_fields and
\* address_fields (five at most), and the insert of each flag and of each
\* annotation for each target; and it calls announce() at most once.
C38_OneTimeWorkOnce ==
    \A i \in Inj :
        /\ Len(Enqueued(i, LAMBDA e : e.k = "insert_message")) <= 1
        /\ Len(Enqueued(i, LAMBDA e : e.k = "select_currval")) <= 1
        /\ \A m \in Mbx :
            /\ Len(Enqueued(i, LAMBDA e : e.k = "lock" /\ e.a = m))
                    <= Cardinality({n \in DOMAIN d[i].mailboxes :
                                        d[i].mailboxes[n].mailbox = m})
            /\ Len(Enqueued(i, LAMBDA e : e.k = "update_mailbox" /\ e.a.m = m))
                    <= Cardinality({n \in DOMAIN d[i].mailboxes :
                                        d[i].mailboxes[n].mailbox = m})
        /\ \A t \in {"mailbox_messages", "part_numbers", "header_fields",
                     "date_fields", "address_fields"} : Len(CopiesInto(i, t)) <= 1
        /\ Len(Enqueued(i, LAMBDA e : e.k = "insert_rows" /\ e.o = "none")) <= 5
        /\ NoneTwice(i, LAMBDA e : e.k = "insert_rows" /\ e.o = "injector")
        /\ Len(Enqueued(i, LAMBDA e : e.k = "insert_rows" /\ e.o = "injector"))
                <= (Len(d[i].message.flags) + Len(d[i].message.annotations))
                        * Len(d[i].mailboxes)
        /\ d[i].announced <= 1

\* An injection with a flag to set is Done and announced, having enqueued
\* each of its inserts once, and execute() was called on it after that.
C38_Witness ==
    \E i \in Inj :
        /\ d[i].state = "Done" /\ d[i].announced = 1 /\ d[i].late
        /\ d[i].message.flags # << >>
        /\ Len(Enqueued(i, LAMBDA e : e.k = "insert_message")) = 1
        /\ Len(Enqueued(i, LAMBDA e : e.k = "lock")) = 1
        /\ Len(Enqueued(i, LAMBDA e : e.k = "update_mailbox")) = 1
        /\ Len(CopiesInto(i, "mailbox_messages")) = 1
        /\ Len(CopiesInto(i, "part_numbers")) = 1
        /\ Len(Enqueued(i, LAMBDA e : e.k = "insert_rows" /\ e.o = "injector")) = 1

\* C39: every id in the flag, annotation-name and field-name caches is the
\* id of a row of its table with that name, a row that is committed or that
\* a transaction still open has created: no id stays in a cache for a row
\* that the rollback of its transaction has removed.
C39_CachedIdsAreRows ==
    \A k \in CacheKinds : \A f \in cache[k] :
        f.id # 0 =>
            \E r \in db.vocab[k] : r.id = f.id /\ r.key = KeyOf(k, f.name)

\* C40: of an injection that has committed, the row of bodyparts that the
\* bid of a stored part refers to holds what setupBodyparts() binds for the
\* part in each column that the part is stored in: the text of a part whose
\* text is stored, the data of a part whose data is stored, whichever part
\* created the row.
C40_RowHoldsPayload ==
    \A i \in Inj : \A n \in DOMAIN d[i].bodyparts :
        LET p == d[i].message.parts[n]
            b == d[i].bodyparts[n]
        IN  db.tx[i].st = "committed" /\ b.bid # 0 =>
                \E r \in db.vocab["bodypart"] :
                    /\ r.id = b.bid /\ r.c
                    /\ StoreText(p) => r.val.text = BodypartRow(p).text
                    /\ StoreData(p) => r.val.data = BodypartRow(p).data

====
